---- MODULE Spec2Model ----
(***************************************************************************)
(* Model of the campus resource borrow/return system: SystemManager        *)
(* (system_manager.py) over the FileManager stores (file_manager.py).      *)
(*                                                                         *)
(* Python strings are sequences of one-character strings, so that strip,   *)
(* startswith, isdigit, int() and zfill are computed and not assumed.      *)
(* A date string "YYYY-MM-DD" is the tuple <<y, m, d>> of its three        *)
(* numbers; None is the empty tuple.                                       *)
(***************************************************************************)
EXTENDS Integers, Sequences, FiniteSets, TLC

\* ------------------------------------------------------------------ bounds
MaxTx == 2
MaxQty == 2
MaxFail == 1
MaxStudents == 3

\* SystemManager.__init__(due_days=3)
due_days == 3

None == <<>>

\* ----------------------------------------------------------------- strings
Digits == <<"0", "1", "2", "3", "4", "5", "6", "7", "8", "9">>

IsDigitChar(c) == \E i \in 1..10 : Digits[i] = c

DigitVal(c) == (CHOOSE i \in 1..10 : Digits[i] = c) - 1

\* str.isdigit(): every character a digit, and at least one character
IsDigitStr(s) == Len(s) > 0 /\ \A i \in 1..Len(s) : IsDigitChar(s[i])

RECURSIVE StrToInt(_)
StrToInt(s) ==
    IF Len(s) = 0 THEN 0
    ELSE 10 * StrToInt(SubSeq(s, 1, Len(s) - 1)) + DigitVal(s[Len(s)])

RECURSIVE IntToStr(_)
IntToStr(n) ==
    IF n < 10 THEN <<Digits[n + 1]>>
    ELSE IntToStr(n \div 10) \o <<Digits[(n % 10) + 1]>>

RECURSIVE ZFill(_, _)
ZFill(s, width) == IF Len(s) >= width THEN s ELSE ZFill(<<"0">> \o s, width)

RECURSIVE LStrip(_)
LStrip(s) ==
    IF Len(s) > 0 /\ s[1] = " " THEN LStrip(Tail(s)) ELSE s

RECURSIVE RStrip(_)
RStrip(s) ==
    IF Len(s) > 0 /\ s[Len(s)] = " " THEN RStrip(SubSeq(s, 1, Len(s) - 1)) ELSE s

Strip(s) == RStrip(LStrip(s))

StartsWith(s, c) == Len(s) > 0 /\ s[1] = c

Uppers == <<"A", "B", "C", "D", "E", "F", "G", "H", "I", "J", "K", "L", "M", "N",
           "O", "P", "Q", "R", "S", "T", "U", "V", "W", "X", "Y", "Z">>

Lowers == <<"a", "b", "c", "d", "e", "f", "g", "h", "i", "j", "k", "l", "m", "n",
           "o", "p", "q", "r", "s", "t", "u", "v", "w", "x", "y", "z">>

LowerChar(c) ==
    IF \E i \in 1..26 : Uppers[i] = c
    THEN Lowers[CHOOSE i \in 1..26 : Uppers[i] = c]
    ELSE c

\* str.lower()
Lower(s) == [i \in 1..Len(s) |-> LowerChar(s[i])]

\* c in s
Contains(s, c) == \E i \in 1..Len(s) : s[i] = c

\* s.split(c, 1)[1] of a string that contains c: the text after the first c
RECURSIVE AfterFirst(_, _)
AfterFirst(s, c) == IF s[1] = c THEN Tail(s) ELSE AfterFirst(Tail(s), c)

\* s.endswith(d)
EndsWith(s, d) ==
    Len(d) <= Len(s) /\ SubSeq(s, Len(s) - Len(d) + 1, Len(s)) = d

\* ------------------------------------------------------------------- dates
IsLeap(y) == (y % 4 = 0) /\ ((y % 100 # 0) \/ (y % 400 = 0))

DaysInMonth(y, m) ==
    IF m = 2 THEN (IF IsLeap(y) THEN 29 ELSE 28)
    ELSE IF m \in {4, 6, 9, 11} THEN 30 ELSE 31

\* parse_iso succeeds exactly on these
IsValidDate(d) ==
    /\ Len(d) = 3
    /\ d[1] \in 1..9999
    /\ d[2] \in 1..12
    /\ d[3] \in 1..DaysInMonth(d[1], d[2])

NextDay(d) ==
    IF d[3] < DaysInMonth(d[1], d[2]) THEN <<d[1], d[2], d[3] + 1>>
    ELSE IF d[2] < 12 THEN <<d[1], d[2] + 1, 1>>
    ELSE <<d[1] + 1, 1, 1>>

\* faulty variant: the days are added to the day of the month, without carry
iso_plus_days_no_carry(start_iso, days) ==
    <<start_iso[1], start_iso[2], start_iso[3] + days>>

RECURSIVE iso_plus_days(_, _)
iso_plus_days(start_iso, days) ==
    IF days = 0 THEN start_iso ELSE iso_plus_days(NextDay(start_iso), days - 1)

\* faulty variant: a date is also after itself
DateAfterOrSame(a, b) ==
    \/ a[1] > b[1]
    \/ a[1] = b[1] /\ a[2] > b[2]
    \/ a[1] = b[1] /\ a[2] = b[2] /\ a[3] >= b[3]

\* date comparison of two parsed dates: a > b
DateAfter(a, b) ==
    \/ a[1] > b[1]
    \/ a[1] = b[1] /\ a[2] > b[2]
    \/ a[1] = b[1] /\ a[2] = b[2] /\ a[3] > b[3]

today_iso == <<2024, 1, 30>>

\* -------------------------------------------------------------- validators
require_nonempty_ok(value) == Len(Strip(value)) > 0

\* faulty variant: the sign is not checked
require_int_only(value) == value.int

\* a quantity argument: [int |-> whether int(value) succeeds, v |-> its value]
require_int_ge_0_ok(value) == value.int /\ ~(value.v < 0)

\* ------------------------------------------------------------------ inputs
S1 == <<"S", "0", "0", "1">>
S2 == <<"S", "0", "0", "2">>
R1 == <<"R", "1">>
R2 == <<"R", "2">>

StudentIdArgs == {<<>>, <<" ">> \o S1, S2}
ResourceIdArgs == {<<>>, R1, <<" ">> \o R1, R2}
TextArgs == {<<>>, <<"a">>}
QuantityArgs == [int : {TRUE}, v : -1..MaxQty] \cup {[int |-> FALSE, v |-> 0]}
BorrowDateArgs == {None, <<2024, 1, 30>>, <<2024, 2, 30>>}
ReturnDateArgs == {None, <<2024, 2, 30>>}
GivenReturnDate == <<2024, 2, 1>>
PastBorrowDate == <<2023, 12, 30>>
\* list_transactions(student_id): no argument (None), or a student id
StudentFilterArgs ==
    {[given |-> FALSE, v |-> <<>>]} \cup {[given |-> TRUE, v |-> s] : s \in StudentIdArgs}
\* list_overdue(current_date): today (None), the day a loan of PastBorrowDate
\* is due, the day after, a later year, an earlier year, a malformed date
CurrentDateArgs ==
    {None, <<2024, 1, 2>>, <<2024, 1, 3>>, <<2025, 1, 1>>, <<2023, 12, 31>>,
     <<2024, 2, 30>>}
TransactionIdArgs ==
    {<<>>} \cup {<<"T">> \o ZFill(IntToStr(n), 3) : n \in 1..(MaxTx + 1)}

ResourceIds == {Strip(r) : r \in ResourceIdArgs} \ {<<>>}

\* "alustudent.com", "alueducation.com", "education.com", "alu.edu"
AluStudent == <<"a", "l", "u", "s", "t", "u", "d", "e", "n", "t", ".", "c", "o", "m">>
AluEducation == <<"a", "l", "u", "e", "d", "u", "c", "a", "t", "i", "o", "n", ".", "c", "o", "m">>
Education == <<"e", "d", "u", "c", "a", "t", "i", "o", "n", ".", "c", "o", "m">>
AluEdu == <<"a", "l", "u", ".", "e", "d", "u">>

\* RoleConfig(): the default domains, which are also those main() configures
RoleConfig == [student_domains |-> <<AluStudent>>, staff_domains |-> <<AluEducation>>]

\* the configurations of the role detection: the default one, and one with
\* several suffixes in each list and a domain that matches both lists
RoleConfigs ==
    {RoleConfig,
     [student_domains |-> <<AluStudent, Education>>,
      staff_domains |-> <<AluEdu, AluEducation>>]}

\* the emails typed at the prompt: empty, blank, without "@", a student and a
\* staff address, one in capitals between blanks, one with two "@", one of
\* the alu.edu domain, one of a foreign domain
EmailArgs ==
    {<<>>, <<" ">>, <<"b", "o", "b">>,
     <<"a", "@">> \o AluStudent,
     <<" ", "A", "@", "A", "l", "u", "E", "D", "U", "C", "A", "T", "I", "O", "N", ".",
       "C", "O", "M", " ">>,
     <<"a", "@">> \o AluEducation,
     <<"a", "@", "b", "@">> \o AluStudent,
     <<"a", "@">> \o AluEdu,
     <<"a", "@", "x", ".", "o", "r", "g">>}

\* ------------------------------------------------------------------- state
VARIABLES
    students,        \* SystemManager.students
    resources,       \* SystemManager.resources
    transactions,    \* SystemManager.transactions
    d_students,      \* content of students.json
    d_resources,     \* content of resources.json
    d_transactions,  \* content of transactions.json
    d_kind,          \* what each store file holds: a JSON list, or no list
    failures,        \* number of save calls that have failed
    last,            \* the last call: operation, arguments, result
    stocked,         \* history: quantity given to add_resource, per resource id
    overridden,      \* history: resource ids whose quantity update_resource_quantity set
    role_config      \* SystemManager.role_config

mem == <<students, resources, transactions>>
disk == <<d_students, d_resources, d_transactions>>
vars == <<students, resources, transactions, d_students, d_resources,
          d_transactions, d_kind, failures, last, stocked, overridden, role_config>>

\* ------------------------------------------------------------ find helpers
\* index of the first record whose field equals id, 0 for None
FirstIndex(list, field, id) ==
    IF \E i \in 1..Len(list) : list[i][field] = id
    THEN CHOOSE i \in 1..Len(list) :
            /\ list[i][field] = id
            /\ \A j \in 1..(i - 1) : list[j][field] # id
    ELSE 0

\* faulty variant: the id is compared as given, not stripped
find_student_unstripped(studs, student_id) == FirstIndex(studs, "student_id", student_id)

find_student(studs, student_id) == FirstIndex(studs, "student_id", Strip(student_id))

find_resource(res, resource_id) == FirstIndex(res, "resource_id", Strip(resource_id))

find_transaction(txs, transaction_id) ==
    FirstIndex(txs, "transaction_id", Strip(transaction_id))

active_transactions_for_resource(txs, resource_id) ==
    SelectSeq(txs, LAMBDA t : t.resource_id = resource_id /\ t.status = "borrowed")

\* faulty variant: the scan tests the wrong status
active_for_student_resource_wrong_status(txs, student_id, resource_id) ==
    SelectSeq(txs, LAMBDA t : /\ t.student_id = student_id
                              /\ t.resource_id = resource_id
                              /\ t.status = "returned")

active_transactions_for_student_resource(txs, student_id, resource_id) ==
    SelectSeq(txs, LAMBDA t : /\ t.student_id = student_id
                              /\ t.resource_id = resource_id
                              /\ t.status = "borrowed")

\* ----------------------------------------------------------- id generation
SetMax(S) == CHOOSE x \in S : \A y \in S : y <= x

\* faulty variant: the new number is the maximum itself
next_transaction_id_no_increment(txs) ==
    LET nums == {StrToInt(Tail(txs[i].transaction_id)) :
                    i \in {j \in 1..Len(txs) :
                            /\ StartsWith(txs[j].transaction_id, "T")
                            /\ IsDigitStr(Tail(txs[j].transaction_id))}}
        new_num == IF nums # {} THEN SetMax(nums) ELSE 1
    IN  <<"T">> \o ZFill(IntToStr(new_num), 3)

\* faulty variant: the first number is 0
next_transaction_id_from_zero(txs) ==
    LET nums == {StrToInt(Tail(txs[i].transaction_id)) :
                    i \in {j \in 1..Len(txs) :
                            /\ StartsWith(txs[j].transaction_id, "T")
                            /\ IsDigitStr(Tail(txs[j].transaction_id))}}
        new_num == IF nums # {} THEN SetMax(nums) + 1 ELSE 0
    IN  <<"T">> \o ZFill(IntToStr(new_num), 3)

next_transaction_id(txs) ==
    LET nums == {StrToInt(Tail(txs[i].transaction_id)) :
                    i \in {j \in 1..Len(txs) :
                            /\ StartsWith(txs[j].transaction_id, "T")
                            /\ IsDigitStr(Tail(txs[j].transaction_id))}}
        new_num == IF nums # {} THEN SetMax(nums) + 1 ELSE 1
    IN  <<"T">> \o ZFill(IntToStr(new_num), 3)

\* ---------------------------------------------------------------- outcomes
\* What a call does to the in-memory collections before any save: its result,
\* the collections it leaves, the stores it then saves (in order), and the
\* record it returns.
Raise(kind, m) == [result |-> kind, mem |-> m, saves |-> <<>>, ret |-> None]

Done(m, saves, ret) == [result |-> "ok", mem |-> m, saves |-> saves, ret |-> ret]

\* faulty variant: the new student is put at the head of the list
add_student_at_head(m, student_id, name, email) ==
    IF ~require_nonempty_ok(student_id) \/ ~require_nonempty_ok(name)
          \/ ~require_nonempty_ok(email)
    THEN Raise("ValidationError", m)
    ELSE IF find_student(m[1], student_id) # 0
    THEN Raise("ConflictError", m)
    ELSE Done(<<<<[student_id |-> Strip(student_id),
                   name |-> Strip(name),
                   email |-> Strip(email)]>> \o m[1], m[2], m[3]>>,
              <<"students">>, None)

add_student(m, student_id, name, email) ==
    IF ~require_nonempty_ok(student_id) \/ ~require_nonempty_ok(name)
          \/ ~require_nonempty_ok(email)
    THEN Raise("ValidationError", m)
    ELSE IF find_student(m[1], student_id) # 0
    THEN Raise("ConflictError", m)
    ELSE Done(<<Append(m[1], [student_id |-> Strip(student_id),
                              name |-> Strip(name),
                              email |-> Strip(email)]), m[2], m[3]>>,
              <<"students">>, None)

add_resource(m, resource_id, name, rtype, quantity) ==
    IF ~require_nonempty_ok(resource_id) \/ ~require_nonempty_ok(name)
          \/ ~require_nonempty_ok(rtype) \/ ~require_int_ge_0_ok(quantity)
    THEN Raise("ValidationError", m)
    ELSE IF find_resource(m[2], resource_id) # 0
    THEN Raise("ConflictError", m)
    ELSE Done(<<m[1], Append(m[2], [resource_id |-> Strip(resource_id),
                                    name |-> Strip(name),
                                    type |-> Strip(rtype),
                                    quantity |-> quantity.v]), m[3]>>,
              <<"resources">>, None)

\* faulty variant: the new quantity is lowered by the units out on loan
quantity_after_update_reconciled(qty, outstanding) ==
    IF qty > outstanding THEN qty - outstanding ELSE 0

\* r["quantity"] = qty, whatever the number of loans outstanding
quantity_after_update(qty, outstanding) == qty

update_resource_quantity(m, resource_id, new_quantity) ==
    IF ~require_nonempty_ok(resource_id)
    THEN Raise("ValidationError", m)
    ELSE LET r == find_resource(m[2], resource_id) IN
    IF r = 0
    THEN Raise("NotFoundError", m)
    ELSE IF ~require_int_ge_0_ok(new_quantity)
    THEN Raise("ValidationError", m)
    ELSE Done(<<m[1],
                [m[2] EXCEPT ![r].quantity =
                    quantity_after_update(
                        new_quantity.v,
                        Len(active_transactions_for_resource(m[3], m[2][r].resource_id)))],
                m[3]>>,
              <<"resources">>, None)

\* faulty variant: a resource is removed whether or not it is on loan
remove_resource_on_loan(m, resource_id) ==
    IF ~require_nonempty_ok(resource_id)
    THEN Raise("ValidationError", m)
    ELSE IF find_resource(m[2], resource_id) = 0
    THEN Raise("NotFoundError", m)
    ELSE Done(<<m[1],
                SelectSeq(m[2], LAMBDA x : x.resource_id # resource_id),
                m[3]>>,
              <<"resources">>, None)

\* faulty variant: the transactions of the removed resource are removed with it
remove_resource_cascading(m, resource_id) ==
    IF ~require_nonempty_ok(resource_id)
    THEN Raise("ValidationError", m)
    ELSE IF find_resource(m[2], resource_id) = 0
    THEN Raise("NotFoundError", m)
    ELSE IF Len(active_transactions_for_resource(m[3], resource_id)) > 0
    THEN Raise("ConflictError", m)
    ELSE Done(<<m[1],
                SelectSeq(m[2], LAMBDA x : x.resource_id # resource_id),
                SelectSeq(m[3], LAMBDA x : x.resource_id # resource_id)>>,
              <<"resources", "transactions">>, None)

\* the lookup strips resource_id; the active check and the filter use it as given
remove_resource(m, resource_id) ==
    IF ~require_nonempty_ok(resource_id)
    THEN Raise("ValidationError", m)
    ELSE IF find_resource(m[2], resource_id) = 0
    THEN Raise("NotFoundError", m)
    ELSE IF Len(active_transactions_for_resource(m[3], resource_id)) > 0
    THEN Raise("ConflictError", m)
    ELSE Done(<<m[1],
                SelectSeq(m[2], LAMBDA x : x.resource_id # resource_id),
                m[3]>>,
              <<"resources">>, None)

\* faulty variant: zero counts as available
not_available_below_zero(qty) == qty < 0

\* quantity <= 0 check of borrow_resource
not_available(qty) == qty <= 0

\* faulty variant: the borrow leaves the quantity as it is
quantity_after_borrow_kept(qty) == qty

\* r["quantity"] = qty - 1
quantity_after_borrow(qty) == qty - 1

\* faulty variant: the return adds two
quantity_after_return_twice(qty) == qty + 2

\* r["quantity"] = int(r.get("quantity", 0)) + 1
quantity_after_return(qty) == qty + 1

\* faulty variant: the date is validated before the availability and pair checks
borrow_check_date_first(m, student_id, resource_id, borrow_date) ==
    IF ~require_nonempty_ok(student_id) \/ ~require_nonempty_ok(resource_id)
    THEN "ValidationError"
    ELSE LET sid == Strip(student_id)
             rid == Strip(resource_id)
             r == find_resource(m[2], rid)
    IN
    IF find_student(m[1], sid) = 0 THEN "NotFoundError"
    ELSE IF r = 0 THEN "NotFoundError"
    ELSE IF ~IsValidDate(IF borrow_date = None THEN today_iso ELSE borrow_date)
    THEN "ValidationError"
    ELSE IF not_available(m[2][r].quantity) THEN "ConflictError"
    ELSE IF Len(active_transactions_for_student_resource(m[3], sid, rid)) > 0
    THEN "ConflictError"
    ELSE "ok"

\* faulty variant: a pair that holds a loan may borrow again
borrow_check_pair_unchecked(m, student_id, resource_id, borrow_date) ==
    IF ~require_nonempty_ok(student_id) \/ ~require_nonempty_ok(resource_id)
    THEN "ValidationError"
    ELSE LET sid == Strip(student_id)
             rid == Strip(resource_id)
             r == find_resource(m[2], rid)
    IN
    IF find_student(m[1], sid) = 0 THEN "NotFoundError"
    ELSE IF r = 0 THEN "NotFoundError"
    ELSE IF not_available(m[2][r].quantity) THEN "ConflictError"
    ELSE IF ~IsValidDate(IF borrow_date = None THEN today_iso ELSE borrow_date)
    THEN "ValidationError"
    ELSE "ok"

\* faulty variant: the availability is checked before the student and the
\* resource are looked up
borrow_check_availability_first(m, student_id, resource_id, borrow_date) ==
    IF ~require_nonempty_ok(student_id) \/ ~require_nonempty_ok(resource_id)
    THEN "ValidationError"
    ELSE LET sid == Strip(student_id)
             rid == Strip(resource_id)
             r == find_resource(m[2], rid)
    IN
    IF r # 0 /\ not_available(m[2][r].quantity) THEN "ConflictError"
    ELSE IF Len(active_transactions_for_student_resource(m[3], sid, rid)) > 0
    THEN "ConflictError"
    ELSE IF find_student(m[1], sid) = 0 THEN "NotFoundError"
    ELSE IF r = 0 THEN "NotFoundError"
    ELSE IF ~IsValidDate(IF borrow_date = None THEN today_iso ELSE borrow_date)
    THEN "ValidationError"
    ELSE "ok"

\* The preconditions of borrow_resource in the order the code checks them:
\* the kind of the first that fails, "ok" when all pass.
borrow_check(m, student_id, resource_id, borrow_date) ==
    IF ~require_nonempty_ok(student_id) \/ ~require_nonempty_ok(resource_id)
    THEN "ValidationError"
    ELSE LET sid == Strip(student_id)
             rid == Strip(resource_id)
             r == find_resource(m[2], rid)
    IN
    IF find_student(m[1], sid) = 0 THEN "NotFoundError"
    ELSE IF r = 0 THEN "NotFoundError"
    ELSE IF not_available(m[2][r].quantity) THEN "ConflictError"
    ELSE IF Len(active_transactions_for_student_resource(m[3], sid, rid)) > 0
    THEN "ConflictError"
    ELSE IF ~IsValidDate(IF borrow_date = None THEN today_iso ELSE borrow_date)
    THEN "ValidationError"
    ELSE "ok"

\* faulty variant: the transactions store is saved before the resources store
borrow_saves_transactions_first == <<"transactions", "resources">>

\* faulty variant: the transactions store is not saved
return_saves_resources_only == <<"resources">>

\* the stores borrow_resource and return_resource save, in order
borrow_saves == <<"resources", "transactions">>

return_saves == <<"resources", "transactions">>

borrow_resource(m, student_id, resource_id, borrow_date) ==
    LET check == borrow_check(m, student_id, resource_id, borrow_date) IN
    IF check # "ok"
    THEN Raise(check, m)
    ELSE LET sid == Strip(student_id)
             rid == Strip(resource_id)
             r == find_resource(m[2], rid)
             bdate == IF borrow_date = None THEN today_iso ELSE borrow_date
             tx == [transaction_id |-> next_transaction_id(m[3]),
                    student_id |-> sid,
                    resource_id |-> rid,
                    borrow_date |-> bdate,
                    due_date |-> iso_plus_days(bdate, due_days),
                    return_date |-> None,
                    status |-> "borrowed"]
         IN Done(<<m[1],
                   [m[2] EXCEPT ![r].quantity = quantity_after_borrow(m[2][r].quantity)],
                   Append(m[3], tx)>>,
                 borrow_saves, tx)

\* faulty variant: a transaction of any status can be returned
not_borrowed_never(status) == FALSE

\* tx.get("status") != "borrowed"
not_borrowed(status) == status # "borrowed"

\* faulty variant: the return leaves return_date as it is
returned_tx_date_unset(tx, rdate) == [tx EXCEPT !.status = "returned"]

\* tx["return_date"] = rdate; tx["status"] = "returned"
returned_tx(tx, rdate) == [tx EXCEPT !.return_date = rdate, !.status = "returned"]

\* faulty variant: the transaction is marked returned before the date is validated
return_resource_date_checked_late(m, transaction_id, return_date) ==
    IF ~require_nonempty_ok(transaction_id)
    THEN Raise("ValidationError", m)
    ELSE LET t == find_transaction(m[3], transaction_id) IN
    IF t = 0
    THEN Raise("NotFoundError", m)
    ELSE IF not_borrowed(m[3][t].status)
    THEN Raise("ConflictError", m)
    ELSE IF ~require_nonempty_ok(m[3][t].resource_id)
    THEN Raise("ValidationError", m)
    ELSE LET r == find_resource(m[2], m[3][t].resource_id) IN
    IF r = 0
    THEN Raise("NotFoundError", m)
    ELSE LET rdate == IF return_date = None THEN today_iso ELSE return_date
             txs == [m[3] EXCEPT ![t] = returned_tx(m[3][t], rdate)]
    IN
    IF ~IsValidDate(rdate)
    THEN Raise("ValidationError", <<m[1], m[2], txs>>)
    ELSE Done(<<m[1],
                [m[2] EXCEPT ![r].quantity = quantity_after_return(m[2][r].quantity)],
                txs>>,
              return_saves, txs[t])

return_resource(m, transaction_id, return_date) ==
    IF ~require_nonempty_ok(transaction_id)
    THEN Raise("ValidationError", m)
    ELSE LET t == find_transaction(m[3], transaction_id) IN
    IF t = 0
    THEN Raise("NotFoundError", m)
    ELSE IF not_borrowed(m[3][t].status)
    THEN Raise("ConflictError", m)
    ELSE IF ~require_nonempty_ok(m[3][t].resource_id)
    THEN Raise("ValidationError", m)
    ELSE LET r == find_resource(m[2], m[3][t].resource_id) IN
    IF r = 0
    THEN Raise("NotFoundError", m)
    ELSE LET rdate == IF return_date = None THEN today_iso ELSE return_date IN
    IF ~IsValidDate(rdate)
    THEN Raise("ValidationError", m)
    ELSE LET txs == [m[3] EXCEPT ![t] = returned_tx(m[3][t], rdate)]
         IN Done(<<m[1],
                   [m[2] EXCEPT ![r].quantity = quantity_after_return(m[2][r].quantity)],
                   txs>>,
                 return_saves, txs[t])

\* faulty variant: the return date of the caller is not handed on
return_resource_by_student_resource_today(m, student_id, resource_id, return_date) ==
    IF ~require_nonempty_ok(student_id) \/ ~require_nonempty_ok(resource_id)
    THEN Raise("ValidationError", m)
    ELSE LET active == active_transactions_for_student_resource(
                           m[3], Strip(student_id), Strip(resource_id))
    IN
    IF Len(active) = 0
    THEN Raise("NotFoundError", m)
    ELSE IF Len(active) > 1
    THEN Raise("ConflictError", m)
    ELSE return_resource(m, active[1].transaction_id, None)

return_resource_by_student_resource(m, student_id, resource_id, return_date) ==
    IF ~require_nonempty_ok(student_id) \/ ~require_nonempty_ok(resource_id)
    THEN Raise("ValidationError", m)
    ELSE LET active == active_transactions_for_student_resource(
                           m[3], Strip(student_id), Strip(resource_id))
    IN
    IF Len(active) = 0
    THEN Raise("NotFoundError", m)
    ELSE IF Len(active) > 1
    THEN Raise("ConflictError", m)
    ELSE return_resource(m, active[1].transaction_id, return_date)

\* ------------------------------------------------------ lists and lookups
\* A record handed to a caller: a new dict made by dict(r) (of = 0), or the
\* dict held in collection of (1 students, 2 resources, 3 transactions) at
\* index at.
Copy(rec) == [of |-> 0, at |-> 0, rec |-> rec]

Alias(c, i, rec) == [of |-> c, at |-> i, rec |-> rec]

\* the collections after a caller assigns handle[field] = value
caller_sets(m, handle, field, value) ==
    IF handle.of = 0 THEN m
    ELSE [m EXCEPT ![handle.of][handle.at][field] = value]

\* find_student / find_resource / find_transaction as a caller sees them: the
\* record of the collection ("return s"), no record for None or an empty id
find_student_record(m, student_id) ==
    LET i == find_student(m[1], student_id) IN
    IF ~require_nonempty_ok(student_id) \/ i = 0 THEN <<>>
    ELSE <<Alias(1, i, m[1][i])>>

find_resource_record(m, resource_id) ==
    LET i == find_resource(m[2], resource_id) IN
    IF ~require_nonempty_ok(resource_id) \/ i = 0 THEN <<>>
    ELSE <<Alias(2, i, m[2][i])>>

find_transaction_record(m, transaction_id) ==
    LET i == find_transaction(m[3], transaction_id) IN
    IF ~require_nonempty_ok(transaction_id) \/ i = 0 THEN <<>>
    ELSE <<Alias(3, i, m[3][i])>>

\* faulty variant: the list holds the records of the collection themselves
list_resources_live(m) == [i \in 1..Len(m[2]) |-> Alias(2, i, m[2][i])]

list_resources(m) == [i \in 1..Len(m[2]) |-> Copy(m[2][i])]

\* faulty variant: the quantity is not tested
list_available_resources_all(m) == [i \in 1..Len(m[2]) |-> Copy(m[2][i])]

list_available_resources(m) ==
    LET sel == SelectSeq(m[2], LAMBDA r : r.quantity > 0)
    IN  [i \in 1..Len(sel) |-> Copy(sel[i])]

\* student_id: [given |-> FALSE] for None, else the id; an empty id raises
list_transactions(m, student_id) ==
    IF ~student_id.given
    THEN [result |-> "ok", ret |-> [i \in 1..Len(m[3]) |-> Copy(m[3][i])]]
    ELSE IF ~require_nonempty_ok(student_id.v)
    THEN [result |-> "ValidationError", ret |-> <<>>]
    ELSE LET sel == SelectSeq(m[3], LAMBDA t : t.student_id = Strip(student_id.v))
         IN  [result |-> "ok", ret |-> [i \in 1..Len(sel) |-> Copy(sel[i])]]

\* is_overdue(tx, current_date), both dates parsing
is_overdue(tx, current_date) ==
    IF tx.status # "borrowed" THEN FALSE
    ELSE DateAfter(current_date, tx.due_date)

list_overdue(m, current_date) ==
    LET cdate == IF current_date = None THEN today_iso ELSE current_date IN
    IF ~IsValidDate(cdate)
    THEN [result |-> "ValidationError", ret |-> <<>>]
    ELSE LET sel == SelectSeq(m[3], LAMBDA t : is_overdue(t, cdate))
         IN  [result |-> "ok", ret |-> [i \in 1..Len(sel) |-> Copy(sel[i])]]

\* return dict(tx) of borrow_resource and return_resource
returned_record(tx) == Copy(tx)

\* ------------------------------------------------------------- persistence
\* A store holds a JSON document: a list of objects whose values are tagged
\* with their JSON type.
JString(s) == [t |-> "string", v |-> s]
JNumber(n) == [t |-> "number", v |-> n]
JNull == [t |-> "null", v |-> <<>>]

\* json.dump of one record: int -> number, None -> null, str -> string
json_dump_record(rec) ==
    [k \in DOMAIN rec |->
        IF k = "quantity" THEN JNumber(rec[k])
        ELSE IF k = "return_date" /\ rec[k] = None THEN JNull
        ELSE JString(rec[k])]

json_dump(list) == [i \in 1..Len(list) |-> json_dump_record(list[i])]

\* faulty variant: null is read back as the text "null"
json_load_record_null_as_text(obj) ==
    [k \in DOMAIN obj |->
        IF obj[k].t = "null" THEN <<"n", "u", "l", "l">> ELSE obj[k].v]

\* json.loads of one object: null -> None, number -> int, string -> str
json_load_record(obj) ==
    [k \in DOMAIN obj |-> IF obj[k].t = "null" THEN None ELSE obj[k].v]

\* How a call of _save_list goes: without an OSError, or with one raised
\* while json.dump writes the temporary file (k records were written), or
\* with one raised by os.replace.
NoFault == [at |-> "none", k |-> 0]

SaveFaults(list) ==
    {[at |-> "write", k |-> k] : k \in 0..Len(list)}
        \cup {[at |-> "replace", k |-> Len(list)]}

\* the content of the temporary file when json.dump ends
tmp_file(list, fault) ==
    IF fault.at = "write" THEN SubSeq(json_dump(list), 1, fault.k) ELSE json_dump(list)

\* faulty variant: json.dump writes into the target file itself
_save_list_in_place(old, list, fault) == tmp_file(list, fault)

\* _save_list: the content of the target file after the call. The list is
\* written to the temporary file, which replaces the target when nothing
\* failed; on OSError the temporary file is removed and the target, never
\* opened, keeps its content.
_save_list(old, list, fault) ==
    IF fault.at = "none" THEN tmp_file(list, fault) ELSE old

\* What a store file holds: a JSON list (kind "list", doc its entries), or no
\* list (doc empty): the file is missing, is empty or blank, is not JSON
\* ("invalid"), holds the JSON null, or holds a JSON object.
File(kind, doc) == [kind |-> kind, doc |-> doc]

\* isinstance(item, dict): an entry that is no object is a tagged value [t, v]
is_dict(item) == DOMAIN item # {"t", "v"}

\* the file after _ensure_file
_ensure_file(file) == IF file.kind = "missing" THEN File("list", <<>>) ELSE file

\* How a call of _load_list goes: without an OSError, with one raised while the
\* file is read, or with one raised by the _save_list that repairs an empty file.
LoadFaults(file) ==
    {[at |-> "read", k |-> 0]}
        \cup (IF file.kind = "empty" THEN SaveFaults(<<>>) ELSE {})

\* faulty variant: the entries before the first one that is no object are returned
_load_list_partial(file, fault) ==
    LET f == _ensure_file(file)
        bad == {i \in 1..Len(f.doc) : ~is_dict(f.doc[i])}
        n == IF bad = {} THEN Len(f.doc)
             ELSE (CHOOSE i \in bad : \A j \in bad : i <= j) - 1
    IN  [result |-> "ok",
         ret |-> [i \in 1..n |-> json_load_record(f.doc[i])],
         file |-> f]

\* _load_list on a store file: the result, the list returned (None when it
\* raises) and the file it leaves.
_load_list(file, fault) ==
    LET f == _ensure_file(file)
        corrupt == [result |-> "FileCorruptionError", ret |-> None, file |-> f]
    IN
    IF fault.at = "read"
    THEN [result |-> "FileManagerError", ret |-> None, file |-> f]
    ELSE IF f.kind = "empty"
    THEN (IF fault.at = "none"
          THEN [result |-> "ok", ret |-> <<>>,
                file |-> File("list", _save_list(f.doc, <<>>, fault))]
          ELSE [result |-> "FileManagerError", ret |-> None, file |-> f])
    ELSE IF f.kind = "invalid"
    THEN corrupt
    ELSE IF f.kind = "null"
    THEN [result |-> "ok", ret |-> <<>>, file |-> f]
    ELSE IF f.kind # "list"
    THEN corrupt
    ELSE IF \E i \in 1..Len(f.doc) : ~is_dict(f.doc[i])
    THEN corrupt
    ELSE [result |-> "ok",
          ret |-> [i \in 1..Len(f.doc) |-> json_load_record(f.doc[i])],
          file |-> f]

RenameKey(r, from, to) ==
    [k \in (DOMAIN r \ {from}) \cup {to} |-> IF k = to THEN r[from] ELSE r[k]]

\* load_all's normalisation of old keys in a resource record
normalize_resource(r) ==
    LET r1 == IF "resource_id" \notin DOMAIN r /\ "item_id" \in DOMAIN r
              THEN RenameKey(r, "item_id", "resource_id") ELSE r
    IN  IF "type" \notin DOMAIN r1 /\ "rtype" \in DOMAIN r1
        THEN RenameKey(r1, "rtype", "type") ELSE r1

\* the three collections load_all leaves in memory, given the lists the stores hold
load_all(d) ==
    LET res == _load_list(File("list", d[2]), NoFault).ret
    IN  <<_load_list(File("list", d[1]), NoFault).ret,
          [i \in 1..Len(res) |-> normalize_resource(res[i])],
          _load_list(File("list", d[3]), NoFault).ret>>

\* ----------------------------------------------------------------- actions
\* Whether the call saved collection c: it is among the saves the call makes,
\* at a position before the save that failed (failAt = 0: none failed).
Saved(out, failAt, c) ==
    \E i \in 1..Len(out.saves) : out.saves[i] = c /\ (failAt = 0 \/ i < failAt)

CollectionIndex(c) == IF c = "students" THEN 1 ELSE IF c = "resources" THEN 2 ELSE 3

\* the ways the failAt-th save of the call can fail (failAt = 0: none does)
FaultsOf(out, failAt) ==
    IF failAt = 0 THEN {NoFault}
    ELSE SaveFaults(out.mem[CollectionIndex(out.saves[failAt])])

\* The store of collection c after the call: saved without fault when its save
\* comes before the failing one, saved with the fault when its save is the
\* failing one, not written when the call never reaches its save.
store_after(old, out, failAt, c, fault) ==
    IF Saved(out, failAt, c)
    THEN _save_list(old, out.mem[CollectionIndex(c)], NoFault)
    ELSE IF failAt > 0 /\ out.saves[failAt] = c
    THEN _save_list(old, out.mem[CollectionIndex(c)], fault)
    ELSE old

HasResource(res, rid) == \E i \in 1..Len(res) : res[i].resource_id = rid

\* The history variables: stocked and overridden follow the resources when
\* P.stock, last records the call when P.last; otherwise they stay as they are.
History(P, op, rid, given, out, failAt) ==
    /\ last' = IF P.last
               THEN [op |-> op,
                     result |-> IF failAt > 0 THEN "FileManagerError" ELSE out.result]
               ELSE last
    /\ stocked' =
           IF P.stock
           THEN [r \in ResourceIds |->
                    IF ~HasResource(out.mem[2], r) THEN -1
                    ELSE IF op = "add_resource" /\ out.result = "ok" /\ Strip(rid) = r
                    THEN given
                    ELSE stocked[r]]
           ELSE stocked
    /\ overridden' =
           IF P.stock
           THEN {r \in ResourceIds :
                   /\ HasResource(out.mem[2], r)
                   /\ ~(op = "add_resource" /\ out.result = "ok" /\ Strip(rid) = r)
                   /\ \/ r \in overridden
                      \/ /\ op = "update_resource_quantity"
                         /\ out.result = "ok"
                         /\ Strip(rid) = r}
           ELSE overridden

\* faulty variant: a failed save restores the collections of before the call
in_memory_rolled_back(m, out, failAt) == IF failAt > 0 THEN m ELSE out.mem

\* The in-memory collections after a call that held m before it: the call has
\* mutated them before its first save, and a save that raises undoes nothing.
in_memory_after(m, out, failAt) == out.mem

\* One call of a manager operation: the in-memory effect, then its saves in
\* order, the failAt-th of which raises FileManagerError and ends the call.
Do(P, op, rid, given, out, failAt) ==
    /\ failAt <= Len(out.saves)
    /\ failAt > 0 => failures < MaxFail
    /\ students' = in_memory_after(mem, out, failAt)[1]
    /\ resources' = in_memory_after(mem, out, failAt)[2]
    /\ transactions' = in_memory_after(mem, out, failAt)[3]
    /\ \E fault \in FaultsOf(out, failAt) :
        /\ d_students' = store_after(d_students, out, failAt, "students", fault)
        /\ d_resources' = store_after(d_resources, out, failAt, "resources", fault)
        /\ d_transactions' =
               store_after(d_transactions, out, failAt, "transactions", fault)
    /\ failures' = IF failAt > 0 THEN failures + 1 ELSE failures
    /\ History(P, op, rid, given, out, failAt)
    /\ UNCHANGED <<role_config, d_kind>>

AddStudent(P) ==
    \E sid \in P.sids, name \in TextArgs, failAt \in P.fails :
    \E email \in (IF name = <<>> THEN {<<"a">>} ELSE TextArgs) :
        Do(P, "add_student", <<>>, 0, add_student(mem, sid, name, email), failAt)

AddResource(P) ==
    \E rid \in P.rids, name \in TextArgs, failAt \in P.fails :
    \E rtype \in (IF name = <<>> THEN {<<"a">>} ELSE TextArgs) :
    \E quantity \in (IF <<>> \in {name, rtype} THEN {[int |-> TRUE, v |-> 1]}
                     ELSE QuantityArgs) :
        Do(P, "add_resource", rid, quantity.v,
           add_resource(mem, rid, name, rtype, quantity), failAt)

UpdateResourceQuantity(P) ==
    \E rid \in P.rids, new_quantity \in QuantityArgs, failAt \in P.fails :
        Do(P, "update_resource_quantity", rid, new_quantity.v,
           update_resource_quantity(mem, rid, new_quantity), failAt)

RemoveResource(P) ==
    \E rid \in P.rids, failAt \in P.fails :
        Do(P, "remove_resource", rid, 0, remove_resource(mem, rid), failAt)

BorrowResource(P) ==
    /\ Len(transactions) < MaxTx
    /\ \E sid \in P.sids, rid \in P.rids, borrow_date \in P.bdates,
          failAt \in P.fails \cup {2 * f : f \in P.fails} :
        Do(P, "borrow_resource", rid, 0,
           borrow_resource(mem, sid, rid, borrow_date), failAt)

ReturnResource(P) ==
    \E tid \in TransactionIdArgs, return_date \in P.rdates,
       failAt \in P.fails \cup {2 * f : f \in P.fails} :
        Do(P, "return_resource", <<>>, 0,
           return_resource(mem, tid, return_date), failAt)

ReturnResourceByStudentResource(P) ==
    \E sid \in P.sids, rid \in P.rids, return_date \in P.rdates,
       failAt \in P.fails \cup {2 * f : f \in P.fails} :
        Do(P, "return_resource_by_student_resource", rid, 0,
           return_resource_by_student_resource(mem, sid, rid, return_date), failAt)

Init ==
    /\ students = <<>>
    /\ resources = <<>>
    /\ transactions = <<>>
    /\ d_students = <<>>
    /\ d_resources = <<>>
    /\ d_transactions = <<>>
    /\ d_kind = [c \in 1..3 |-> "list"]
    /\ failures = 0
    /\ last = [op |-> "init", result |-> "ok"]
    /\ stocked = [r \in ResourceIds |-> -1]
    /\ overridden = {}
    /\ role_config = RoleConfig

\* The manager's operations on the in-memory collections, every save succeeding.
Calls == [sids |-> StudentIdArgs, rids |-> ResourceIdArgs, bdates |-> BorrowDateArgs,
          rdates |-> ReturnDateArgs, fails |-> {0}, last |-> FALSE, stock |-> FALSE]

Next ==
    \/ AddStudent(Calls)
    \/ AddResource(Calls)
    \/ UpdateResourceQuantity(Calls)
    \/ RemoveResource(Calls)
    \/ BorrowResource(Calls)
    \/ ReturnResource(Calls)
    \/ ReturnResourceByStudentResource(Calls)

Spec == Init /\ [][Next]_vars

\* The same operations on one resource, with the stocked quantity of the
\* resource recorded and returns on a date of the caller's choice.
StockCalls == [Calls EXCEPT !.rids = {<<>>, R1, <<" ">> \o R1},
                            !.rdates = ReturnDateArgs \cup {GivenReturnDate},
                            !.stock = TRUE]

NextStock ==
    \/ AddStudent(StockCalls)
    \/ AddResource(StockCalls)
    \/ UpdateResourceQuantity(StockCalls)
    \/ RemoveResource(StockCalls)
    \/ BorrowResource(StockCalls)
    \/ ReturnResource(StockCalls)
    \/ ReturnResourceByStudentResource(StockCalls)

SpecStock == Init /\ [][NextStock]_vars

\* The operations with save calls that may fail (at most MaxFail of them).
FailCalls == [sids |-> {<<>>, S2}, rids |-> {<<>>, R1, <<" ">> \o R1},
              bdates |-> BorrowDateArgs, rdates |-> ReturnDateArgs, fails |-> {0, 1},
              last |-> TRUE, stock |-> FALSE]

NextFail ==
    \/ AddStudent(FailCalls)
    \/ AddResource(FailCalls)
    \/ UpdateResourceQuantity(FailCalls)
    \/ RemoveResource(FailCalls)
    \/ BorrowResource(FailCalls)
    \/ ReturnResource(FailCalls)
    \/ ReturnResourceByStudentResource(FailCalls)

SpecFail == Init /\ [][NextFail]_vars

\* ------------------------------------------------- callers of the manager
\* What a caller writes into a record it was handed: a new name, or for a
\* transaction a new status.
ChangeOf(rec) ==
    IF "status" \in DOMAIN rec THEN <<"status", "lost">> ELSE <<"name", <<"x">>>>

\* A caller is handed the records of handles by operation op and assigns a
\* field of one of them.
Handed(P, op, handles) ==
    \E i \in 1..Len(handles) :
        LET ch == ChangeOf(handles[i].rec)
            m2 == caller_sets(mem, handles[i], ch[1], ch[2])
        IN  /\ students' = m2[1]
            /\ resources' = m2[2]
            /\ transactions' = m2[3]
            /\ last' = IF P.last THEN [op |-> op, result |-> "changed"] ELSE last
            /\ UNCHANGED <<d_students, d_resources, d_transactions, failures,
                           stocked, overridden, role_config, d_kind>>

FindStudent(P) ==
    \E sid \in P.sids : Handed(P, "find_student", find_student_record(mem, sid))

FindResource(P) ==
    \E rid \in P.rids : Handed(P, "find_resource", find_resource_record(mem, rid))

FindTransaction(P) ==
    \E tid \in TransactionIdArgs :
        Handed(P, "find_transaction", find_transaction_record(mem, tid))

ListResources(P) == Handed(P, "list_resources", list_resources(mem))

ListAvailableResources(P) ==
    Handed(P, "list_available_resources", list_available_resources(mem))

ListTransactions(P) ==
    \E sid \in StudentFilterArgs :
        Handed(P, "list_transactions", list_transactions(mem, sid).ret)

ListOverdue(P) ==
    \E d \in CurrentDateArgs : Handed(P, "list_overdue", list_overdue(mem, d).ret)

\* the record borrow_resource returned for a transaction, and return_resource
\* for a returned one
BorrowOrReturnResult(P) ==
    \E t \in 1..Len(transactions) :
        Handed(P, IF transactions[t].status = "returned"
                  THEN "return_resource" ELSE "borrow_resource",
               <<returned_record(transactions[t])>>)

\* One student and one resource, loans taken today or on a past date, and a
\* caller that changes the records the manager hands out.
CallerCalls == [sids |-> {<<>>, S2}, rids |-> {<<>>, R1},
                bdates |-> {None, PastBorrowDate, <<2024, 2, 30>>},
                rdates |-> ReturnDateArgs, fails |-> {0}, last |-> FALSE,
                stock |-> FALSE]

NextCaller ==
    \/ AddStudent(CallerCalls)
    \/ AddResource(CallerCalls)
    \/ UpdateResourceQuantity(CallerCalls)
    \/ RemoveResource(CallerCalls)
    \/ BorrowResource(CallerCalls)
    \/ ReturnResource(CallerCalls)
    \/ ReturnResourceByStudentResource(CallerCalls)
    \/ FindStudent(CallerCalls)
    \/ FindResource(CallerCalls)
    \/ FindTransaction(CallerCalls)
    \/ ListResources(CallerCalls)
    \/ ListAvailableResources(CallerCalls)
    \/ ListTransactions(CallerCalls)
    \/ ListOverdue(CallerCalls)
    \/ BorrowOrReturnResult(CallerCalls)

SpecCaller == Init /\ [][NextCaller]_vars

\* Two students and one resource, loans taken today or on a past date, and
\* the reports read between the operations.
DateCalls == [CallerCalls EXCEPT !.sids = StudentIdArgs]

NextDates ==
    \/ AddStudent(DateCalls)
    \/ AddResource(DateCalls)
    \/ UpdateResourceQuantity(DateCalls)
    \/ RemoveResource(DateCalls)
    \/ BorrowResource(DateCalls)
    \/ ReturnResource(DateCalls)
    \/ ReturnResourceByStudentResource(DateCalls)
    \/ ListResources(DateCalls)
    \/ ListAvailableResources(DateCalls)
    \/ ListTransactions(DateCalls)
    \/ ListOverdue(DateCalls)

SpecDates == Init /\ [][NextDates]_vars

\* ------------------------------------------------- the file manager alone
\* The lists a caller hands to save_students, save_resources and
\* save_transactions: flat records with string, integer and null values, a
\* resource with the old keys among them.
StudentLists ==
    {<<>>, <<[student_id |-> S1, name |-> <<"a">>, email |-> <<"a">>]>>}

ResourceLists ==
    {<<>>,
     <<[resource_id |-> R1, name |-> <<"a">>, type |-> <<"a">>, quantity |-> 0]>>,
     <<[resource_id |-> R2, name |-> <<"a">>, type |-> <<"a">>, quantity |-> MaxQty],
       [item_id |-> R1, name |-> <<"a">>, rtype |-> <<"a">>, quantity |-> 1]>>}

TxBorrowed ==
    [transaction_id |-> <<"T", "0", "0", "1">>, student_id |-> S1, resource_id |-> R1,
     borrow_date |-> <<2024, 1, 30>>, due_date |-> <<2024, 2, 2>>,
     return_date |-> None, status |-> "borrowed"]

TxReturned ==
    [transaction_id |-> <<"T", "0", "0", "2">>, student_id |-> S1, resource_id |-> R2,
     borrow_date |-> <<2024, 1, 30>>, due_date |-> <<2024, 2, 2>>,
     return_date |-> <<2024, 1, 30>>, status |-> "returned"]

TransactionLists ==
    {<<>>, <<TxBorrowed>>, <<TxBorrowed, TxReturned>>, <<TxReturned, TxBorrowed>>}

\* save_students / save_resources / save_transactions(list): the caller holds
\* list, the store of collection c is written by _save_list, which may fail.
SaveList(c, op, list) ==
    \E fault \in {NoFault} \cup SaveFaults(list) :
        /\ fault.at # "none" => failures < MaxFail
        /\ students' = IF c = 1 THEN list ELSE students
        /\ resources' = IF c = 2 THEN list ELSE resources
        /\ transactions' = IF c = 3 THEN list ELSE transactions
        /\ d_students' = IF c = 1 THEN _save_list(d_students, list, fault) ELSE d_students
        /\ d_resources' = IF c = 2 THEN _save_list(d_resources, list, fault) ELSE d_resources
        /\ d_transactions' =
               IF c = 3 THEN _save_list(d_transactions, list, fault) ELSE d_transactions
        /\ failures' = IF fault.at # "none" THEN failures + 1 ELSE failures
        /\ last' = [op |-> op,
                    result |-> IF fault.at # "none" THEN "FileManagerError" ELSE "ok"]
        /\ d_kind' = IF fault.at = "none" THEN [d_kind EXCEPT ![c] = "list"] ELSE d_kind
        /\ UNCHANGED <<stocked, overridden, role_config>>

\* load_students / load_resources / load_transactions(): the caller gets the
\* list _load_list reads from the store of collection c, and keeps the list
\* it had when _load_list raises.
LoadList(c, op) ==
    \E fault \in {NoFault} \cup LoadFaults(File(d_kind[c], disk[c])) :
        LET out == _load_list(File(d_kind[c], disk[c]), fault) IN
        /\ fault.at # "none" => failures < MaxFail
        /\ students' = IF c = 1 /\ out.result = "ok" THEN out.ret ELSE students
        /\ resources' = IF c = 2 /\ out.result = "ok" THEN out.ret ELSE resources
        /\ transactions' = IF c = 3 /\ out.result = "ok" THEN out.ret ELSE transactions
        /\ d_students' = IF c = 1 THEN out.file.doc ELSE d_students
        /\ d_resources' = IF c = 2 THEN out.file.doc ELSE d_resources
        /\ d_transactions' = IF c = 3 THEN out.file.doc ELSE d_transactions
        /\ d_kind' = [d_kind EXCEPT ![c] = out.file.kind]
        /\ failures' = IF fault.at # "none" THEN failures + 1 ELSE failures
        /\ last' = [op |-> op, result |-> out.result]
        /\ UNCHANGED <<stocked, overridden, role_config>>

SaveStudents == \E list \in StudentLists : SaveList(1, "save_students", list)

SaveResources == \E list \in ResourceLists : SaveList(2, "save_resources", list)

SaveTransactions == \E list \in TransactionLists : SaveList(3, "save_transactions", list)

LoadStudents == LoadList(1, "load_students")

LoadResources == LoadList(2, "load_resources")

LoadTransactions == LoadList(3, "load_transactions")

NextStore ==
    \/ SaveStudents
    \/ SaveResources
    \/ SaveTransactions
    \/ LoadStudents
    \/ LoadResources
    \/ LoadTransactions

\* The file manager driven directly, its three files created holding "[]".
SpecStore == Init /\ [][NextStore]_vars

\* What a store file can be made to hold from outside the program: nothing
\* (the file is deleted or emptied), text that is not JSON, null, an object,
\* a list with an entry that is no object after one that is, a list of records.
OutsideFiles ==
    {File("missing", <<>>), File("empty", <<>>), File("invalid", <<>>),
     File("null", <<>>), File("object", <<>>),
     File("list", <<json_dump_record([student_id |-> S1, name |-> <<"a">>,
                                      email |-> <<"a">>]),
                    JNumber(1)>>),
     File("list", json_dump(<<[student_id |-> S1, name |-> <<"a">>,
                               email |-> <<"a">>]>>))}

\* a store file is deleted, emptied or rewritten from outside the program
ChangeFile ==
    \E c \in 1..3, file \in OutsideFiles :
        /\ d_students' = IF c = 1 THEN file.doc ELSE d_students
        /\ d_resources' = IF c = 2 THEN file.doc ELSE d_resources
        /\ d_transactions' = IF c = 3 THEN file.doc ELSE d_transactions
        /\ d_kind' = [d_kind EXCEPT ![c] = file.kind]
        /\ last' = [op |-> "change_file", result |-> "ok"]
        /\ UNCHANGED <<students, resources, transactions, failures, stocked,
                       overridden, role_config>>

NextLoad ==
    \/ ChangeFile
    \/ LoadStudents
    \/ LoadResources
    \/ LoadTransactions

\* The loads of the file manager over store files changed from outside.
SpecLoad == Init /\ [][NextLoad]_vars

\* ------------------------------------------------------- roles and login
\* faulty variant: the staff domains are checked before the student domains
determine_role_staff_first(cfg, email) ==
    IF ~require_nonempty_ok(email)
    THEN [result |-> "ValidationError", ret |-> None]
    ELSE LET e == Lower(Strip(email)) IN
    IF ~Contains(e, "@")
    THEN [result |-> "ValidationError", ret |-> None]
    ELSE LET domain == AfterFirst(e, "@") IN
    IF \E i \in 1..Len(cfg.staff_domains) : EndsWith(domain, cfg.staff_domains[i])
    THEN [result |-> "ok", ret |-> "staff"]
    ELSE IF \E i \in 1..Len(cfg.student_domains) :
                EndsWith(domain, cfg.student_domains[i])
    THEN [result |-> "ok", ret |-> "student"]
    ELSE [result |-> "ValidationError", ret |-> None]

\* determine_role(email) under role configuration cfg: the result and the role
determine_role(cfg, email) ==
    IF ~require_nonempty_ok(email)
    THEN [result |-> "ValidationError", ret |-> None]
    ELSE LET e == Lower(Strip(email)) IN
    IF ~Contains(e, "@")
    THEN [result |-> "ValidationError", ret |-> None]
    ELSE LET domain == AfterFirst(e, "@") IN
    IF \E i \in 1..Len(cfg.student_domains) :
           EndsWith(domain, cfg.student_domains[i])
    THEN [result |-> "ok", ret |-> "student"]
    ELSE IF \E i \in 1..Len(cfg.staff_domains) : EndsWith(domain, cfg.staff_domains[i])
    THEN [result |-> "ok", ret |-> "staff"]
    ELSE [result |-> "ValidationError", ret |-> None]

\* One turn of the loop of main() on a typed email other than "0": where the
\* user is sent.
main(cfg, typed) ==
    LET role == determine_role(cfg, Strip(typed)) IN
    IF role.result # "ok" THEN "invalid email"
    ELSE IF role.ret = "staff" THEN "staff_menu"
    ELSE IF role.ret = "student" THEN "student_menu"
    ELSE "role could not be determined"

_generate_student_id(studs) ==
    LET nums == {StrToInt(Tail(studs[i].student_id)) :
                    i \in {j \in 1..Len(studs) :
                            /\ StartsWith(studs[j].student_id, "S")
                            /\ IsDigitStr(Tail(studs[j].student_id))}}
        new_num == IF nums # {} THEN SetMax(nums) + 1 ELSE 1
    IN  <<"S">> \o ZFill(IntToStr(new_num), 3)

\* faulty variant: the email is looked up as typed
login_email_as_typed(typed) == Strip(typed)

\* input(...).strip().lower()
login_email(typed) == Lower(Strip(typed))

\* _get_or_create_student with the email and the name typed at its prompts:
\* ret is the student id it returns, None when it returns None.
_get_or_create_student(m, typed_email, typed_name) ==
    LET email == login_email(typed_email) IN
    IF Len(email) = 0
    THEN Done(m, <<>>, None)
    ELSE LET existing ==
                 {i \in 1..Len(m[1]) :
                     /\ Lower(m[1][i].email) = email
                     /\ \A j \in 1..(i - 1) : Lower(m[1][j].email) # email}
    IN
    IF existing # {}
    THEN Done(m, <<>>, m[1][CHOOSE i \in existing : TRUE].student_id)
    ELSE LET name == Strip(typed_name) IN
    IF Len(name) = 0
    THEN Done(m, <<>>, None)
    ELSE LET student_id == _generate_student_id(m[1])
             added == add_student(m, student_id, name, email)
    IN
    IF added.result = "ok"
    THEN Done(added.mem, added.saves, student_id)
    ELSE Done(m, <<>>, None)

\* the emails and names typed at the prompts of the student login
LoginEmailArgs == {<<>>, <<"a">>, <<" ", "A">>, <<"b">>}

LoginNameArgs == {<<" ">>, <<"n">>}

\* sm.determine_role(email), called with an email as given
DetermineRole ==
    \E email \in EmailArgs :
        /\ last' = [op |-> "determine_role", email |-> email,
                    result |-> determine_role(role_config, email).result,
                    ret |-> determine_role(role_config, email).ret]
        /\ UNCHANGED <<students, resources, transactions, d_students, d_resources,
                       d_transactions, d_kind, failures, stocked, overridden,
                       role_config>>

\* one turn of the loop of main()
Main ==
    \E typed \in EmailArgs :
        /\ last' = [op |-> "main", email |-> typed, result |-> "ok",
                    ret |-> main(role_config, typed)]
        /\ UNCHANGED <<students, resources, transactions, d_students, d_resources,
                       d_transactions, d_kind, failures, stocked, overridden,
                       role_config>>

\* student_menu's login: an existing student is found, or a new one is added
\* and saved (at most MaxStudents students are held before a new one is added).
GetOrCreateStudent ==
    \E typed_email \in LoginEmailArgs, typed_name \in LoginNameArgs :
        LET out == _get_or_create_student(mem, typed_email, typed_name) IN
        /\ out.mem # mem => Len(students) < MaxStudents
        /\ students' = out.mem[1]
        /\ d_students' = store_after(d_students, out, 0, "students", NoFault)
        /\ last' = [op |-> "_get_or_create_student", email |-> typed_email,
                    name |-> typed_name, result |-> out.result, ret |-> out.ret]
        /\ UNCHANGED <<resources, transactions, d_resources, d_transactions,
                       d_kind, failures, stocked, overridden, role_config>>

\* a manager constructed with any of the role configurations
InitLogin ==
    /\ students = <<>>
    /\ resources = <<>>
    /\ transactions = <<>>
    /\ d_students = <<>>
    /\ d_resources = <<>>
    /\ d_transactions = <<>>
    /\ d_kind = [c \in 1..3 |-> "list"]
    /\ failures = 0
    /\ last = [op |-> "init", result |-> "ok"]
    /\ stocked = [r \in ResourceIds |-> -1]
    /\ overridden = {}
    /\ role_config \in RoleConfigs

\* students added directly under the id S002, besides those who log in
LoginCalls == [Calls EXCEPT !.sids = {S2}, !.last = TRUE]

NextLogin ==
    \/ DetermineRole
    \/ Main
    \/ GetOrCreateStudent
    \/ AddStudent(LoginCalls)

\* The email prompt of main() and the login of the student menu.
SpecLogin == InitLogin /\ [][NextLogin]_vars

\* ------------------------------------------- the student menu's return flow
\* _return_resource(system_manager, student_id) with the method and the id
\* typed at its prompts: nothing is asked when the student has no borrowed
\* transaction; method 1 returns by resource id for the logged-in student,
\* method 2 hands the typed transaction id to return_resource as it is. The
\* manager's errors are caught and shown (result names them); "none" is a
\* flow that ends before any call.
_return_resource(m, student_id, typed_method, typed_id) ==
    LET active_borrowings ==
            SelectSeq(m[3], LAMBDA tx : tx.student_id = student_id
                                        /\ tx.status = "borrowed")
        method == Strip(typed_method)
        id == Strip(typed_id)
    IN
    IF Len(active_borrowings) = 0 THEN [Done(m, <<>>, None) EXCEPT !.result = "none"]
    ELSE IF method = <<"1">>
    THEN (IF Len(id) = 0 THEN [Done(m, <<>>, None) EXCEPT !.result = "none"]
          ELSE return_resource_by_student_resource(m, student_id, id, None))
    ELSE IF method = <<"2">>
    THEN (IF Len(id) = 0 THEN [Done(m, <<>>, None) EXCEPT !.result = "none"]
          ELSE return_resource(m, id, None))
    ELSE [Done(m, <<>>, None) EXCEPT !.result = "none"]

\* option 3 of the student menu, for a student who is logged in: student_id
\* is the id _get_or_create_student returned, the id of a stored student; the
\* method is typed at "Choose method" and the id at the prompt after it
MenuReturnResource ==
    \E s \in 1..Len(students),
       typed_method \in {<<"0">>, <<"1">>, <<" ", "2">>, <<"9">>},
       typed_id \in {<<>>, <<" ">> \o R1, R2}
                        \cup {<<"T">> \o ZFill(IntToStr(n), 3) : n \in 1..MaxTx} :
        LET student_id == students[s].student_id
            out == _return_resource(mem, student_id, typed_method, typed_id)
        IN
        /\ students' = out.mem[1]
        /\ resources' = out.mem[2]
        /\ transactions' = out.mem[3]
        /\ d_students' = store_after(d_students, out, 0, "students", NoFault)
        /\ d_resources' = store_after(d_resources, out, 0, "resources", NoFault)
        /\ d_transactions' = store_after(d_transactions, out, 0, "transactions", NoFault)
        /\ last' = [op |-> "_return_resource", result |-> out.result,
                    student_id |-> student_id, method |-> Strip(typed_method),
                    id |-> Strip(typed_id)]
        /\ UNCHANGED <<d_kind, failures, stocked, overridden, role_config>>

\* Two students and one resource: students and resources are added, the
\* resource is removed, students borrow, and returns are made through the
\* student menu.
MenuCalls == [Calls EXCEPT !.rids = {R1}, !.bdates = {None}, !.rdates = {None},
                           !.last = TRUE]

NextMenu ==
    \/ AddStudent(MenuCalls)
    \/ AddResource(MenuCalls)
    \/ RemoveResource(MenuCalls)
    \/ BorrowResource(MenuCalls)
    \/ MenuReturnResource

SpecMenu == Init /\ [][NextMenu]_vars

\* ------------------------------------------------- the read-only operations
\* The operations that only read, called between the others: each is a call
\* with a result, the collections it leaves, the stores it saves and what it
\* returns. None of them assigns to self.students, self.resources or
\* self.transactions or to a record of them, and none calls the file manager.

\* faulty variant: the overdue transactions get the status "overdue", which
\* is then saved
list_overdue_call_marking(m, current_date) ==
    LET r == list_overdue(m, current_date)
        cdate == IF current_date = None THEN today_iso ELSE current_date
    IN
    IF r.result # "ok" THEN Raise(r.result, m)
    ELSE IF Len(r.ret) = 0 THEN Done(m, <<>>, r.ret)
    ELSE Done([m EXCEPT ![3] = [i \in 1..Len(m[3]) |->
                                   IF is_overdue(m[3][i], cdate)
                                   THEN [m[3][i] EXCEPT !.status = "overdue"]
                                   ELSE m[3][i]]],
              <<"transactions">>, r.ret)

list_overdue_call(m, current_date) ==
    LET r == list_overdue(m, current_date) IN
    IF r.result = "ok" THEN Done(m, <<>>, r.ret) ELSE Raise(r.result, m)

FindStudentCall(P) ==
    \E sid \in StudentIdArgs, failAt \in P.fails :
        Do(P, "find_student", <<>>, 0,
           IF ~require_nonempty_ok(sid) THEN Raise("ValidationError", mem)
           ELSE Done(mem, <<>>, find_student_record(mem, sid)),
           failAt)

FindResourceCall(P) ==
    \E rid \in ResourceIdArgs, failAt \in P.fails :
        Do(P, "find_resource", <<>>, 0,
           IF ~require_nonempty_ok(rid) THEN Raise("ValidationError", mem)
           ELSE Done(mem, <<>>, find_resource_record(mem, rid)),
           failAt)

FindTransactionCall(P) ==
    \E tid \in TransactionIdArgs, failAt \in P.fails :
        Do(P, "find_transaction", <<>>, 0,
           IF ~require_nonempty_ok(tid) THEN Raise("ValidationError", mem)
           ELSE Done(mem, <<>>, find_transaction_record(mem, tid)),
           failAt)

NextTransactionIdCall(P) ==
    \E failAt \in P.fails :
        Do(P, "next_transaction_id", <<>>, 0,
           Done(mem, <<>>, next_transaction_id(transactions)), failAt)

ListResourcesCall(P) ==
    \E failAt \in P.fails :
        Do(P, "list_resources", <<>>, 0, Done(mem, <<>>, list_resources(mem)), failAt)

ListAvailableResourcesCall(P) ==
    \E failAt \in P.fails :
        Do(P, "list_available_resources", <<>>, 0,
           Done(mem, <<>>, list_available_resources(mem)), failAt)

ListTransactionsCall(P) ==
    \E sid \in StudentFilterArgs, failAt \in P.fails :
        LET r == list_transactions(mem, sid) IN
        Do(P, "list_transactions", <<>>, 0,
           IF r.result = "ok" THEN Done(mem, <<>>, r.ret) ELSE Raise(r.result, mem),
           failAt)

\* is_overdue(tx, current_date) on a stored transaction, as list_overdue and
\* the menus call it: parse_iso raises on a date that does not parse, None
\* included, once the status is known to be "borrowed"
IsOverdueCall(P) ==
    \E t \in 1..Len(transactions), d \in CurrentDateArgs, failAt \in P.fails :
        LET tx == transactions[t] IN
        Do(P, "is_overdue", <<>>, 0,
           IF tx.status # "borrowed" THEN Done(mem, <<>>, FALSE)
           ELSE IF ~IsValidDate(tx.due_date) \/ ~IsValidDate(d)
           THEN Raise("ValidationError", mem)
           ELSE Done(mem, <<>>, is_overdue(tx, d)),
           failAt)

ListOverdueCall(P) ==
    \E d \in CurrentDateArgs, failAt \in P.fails :
        Do(P, "list_overdue", <<>>, 0, list_overdue_call(mem, d), failAt)

DetermineRoleCall(P) ==
    \E email \in EmailArgs, failAt \in P.fails :
        LET r == determine_role(role_config, email) IN
        Do(P, "determine_role", <<>>, 0,
           IF r.result = "ok" THEN Done(mem, <<>>, r.ret) ELSE Raise(r.result, mem),
           failAt)

\* One student and one resource, saves that may fail, and the read-only
\* operations called between the others.
ReadCalls == [FailCalls EXCEPT !.sids = {S2}, !.rids = {R1},
                               !.bdates = {None, <<2024, 2, 30>>}, !.rdates = {None}]

NextRead ==
    \/ AddStudent(ReadCalls)
    \/ AddResource(ReadCalls)
    \/ UpdateResourceQuantity(ReadCalls)
    \/ RemoveResource(ReadCalls)
    \/ BorrowResource(ReadCalls)
    \/ ReturnResource(ReadCalls)
    \/ ReturnResourceByStudentResource(ReadCalls)
    \/ FindStudentCall(ReadCalls)
    \/ FindResourceCall(ReadCalls)
    \/ FindTransactionCall(ReadCalls)
    \/ NextTransactionIdCall(ReadCalls)
    \/ ListResourcesCall(ReadCalls)
    \/ ListAvailableResourcesCall(ReadCalls)
    \/ ListTransactionsCall(ReadCalls)
    \/ IsOverdueCall(ReadCalls)
    \/ ListOverdueCall(ReadCalls)
    \/ DetermineRoleCall(ReadCalls)

SpecRead == Init /\ [][NextRead]_vars

\* ------------------------------------------------------------------ claims
BorrowedCount(txs, rid) == Len(active_transactions_for_resource(txs, rid))

StockRelation(r) ==
    r.quantity = stocked[r.resource_id] - BorrowedCount(transactions, r.resource_id)

\* C1 as stated: every resource's quantity equals the quantity given to
\* add_resource minus the number of "borrowed" transactions against it.
C1_Original == \A i \in 1..Len(resources) : StockRelation(resources[i])

\* C1, amended: the relation holds for every resource whose quantity
\* update_resource_quantity has not overwritten since the resource was added.
C1_StockedMinusBorrowed ==
    \A i \in 1..Len(resources) :
        resources[i].resource_id \notin overridden => StockRelation(resources[i])

\* C1 witness: a resource stocked with two units, never overwritten, both
\* units out on loan.
C1_Witness ==
    \E i \in 1..Len(resources) :
        /\ resources[i].resource_id \notin overridden
        /\ stocked[resources[i].resource_id] = 2
        /\ BorrowedCount(transactions, resources[i].resource_id) = 2
        /\ resources[i].quantity = 0

\* C2: at most one transaction with status "borrowed" for any
\* (student_id, resource_id) pair.
C2_OneBorrowPerPair ==
    \A i, j \in 1..Len(transactions) :
        ( /\ transactions[i].status = "borrowed"
          /\ transactions[j].status = "borrowed"
          /\ transactions[i].student_id = transactions[j].student_id
          /\ transactions[i].resource_id = transactions[j].resource_id ) => i = j

\* C2 witness: a pair borrowed again after its first loan was returned, with
\* units of the resource still available.
C2_Witness ==
    \E i, j \in 1..Len(transactions) :
        /\ i < j
        /\ transactions[i].status = "returned"
        /\ transactions[j].status = "borrowed"
        /\ transactions[i].student_id = transactions[j].student_id
        /\ transactions[i].resource_id = transactions[j].resource_id
        /\ \E r \in 1..Len(resources) :
              /\ resources[r].resource_id = transactions[j].resource_id
              /\ resources[r].quantity > 0

\* A step that appends a transaction is a borrow; a step that turns the t-th
\* transaction from "borrowed" to "returned" is the return of it.
IsBorrowStep == Len(transactions') = Len(transactions) + 1

IsReturnStepOf(t) ==
    /\ t \in 1..Len(transactions)
    /\ Len(transactions') = Len(transactions)
    /\ transactions[t].status = "borrowed"
    /\ transactions'[t].status = "returned"

\* the resources with the quantity of resource rid changed by delta
WithQuantityDelta(res, rid, delta) ==
    [i \in 1..Len(res) |->
        IF res[i].resource_id = rid
        THEN [res[i] EXCEPT !.quantity = @ + delta]
        ELSE res[i]]

\* C3: a successful borrow changes the target's quantity by -1, a successful
\* return by +1, neither touches another resource, and a borrow followed by
\* the return of its transaction restores the resources.
C3_BorrowReturnQuantity ==
    [][ /\ IsBorrowStep =>
            LET tx == transactions'[Len(transactions')]
                back == return_resource(<<students', resources', transactions'>>,
                                        tx.transaction_id, None)
            IN  /\ HasResource(resources, tx.resource_id)
                /\ resources' = WithQuantityDelta(resources, tx.resource_id, -1)
                /\ back.result = "ok"
                /\ back.mem[2] = resources
        /\ \A t \in 1..Len(transactions) : IsReturnStepOf(t) =>
            /\ HasResource(resources, transactions[t].resource_id)
            /\ resources' = WithQuantityDelta(resources, transactions[t].resource_id, 1)
      ]_vars

\* C3 witness: a resource holding one unit with one loan out and one returned.
C3_Witness ==
    \E i, j \in 1..Len(transactions), r \in 1..Len(resources) :
        /\ transactions[i].status = "returned"
        /\ transactions[j].status = "borrowed"
        /\ transactions[i].resource_id = resources[r].resource_id
        /\ transactions[j].resource_id = resources[r].resource_id
        /\ resources[r].quantity = 1
        /\ Len(resources) = 2

QuantityOf(res, rid) == res[FirstIndex(res, "resource_id", rid)].quantity

\* C4 as stated: whatever the students, transactions and other resources, a
\* borrow of a resource whose quantity is 0 fails with ConflictError and
\* creates no transaction.
C4_Original ==
    \A sid \in StudentIdArgs, rid \in ResourceIdArgs, d \in BorrowDateArgs :
        (HasResource(resources, Strip(rid)) /\ QuantityOf(resources, Strip(rid)) = 0) =>
            LET b == borrow_resource(mem, sid, rid, d) IN
            b.result = "ConflictError" /\ b.mem[3] = transactions

\* C4, amended: a borrow of a resource whose quantity is 0 always fails and
\* creates no transaction; it fails with ConflictError when the student id is
\* non-empty and registered, with ValidationError when the student id is
\* empty, with NotFoundError when the student is not registered.
C4_ZeroQuantityBorrowFails ==
    \A sid \in StudentIdArgs, rid \in ResourceIdArgs, d \in BorrowDateArgs :
        (HasResource(resources, Strip(rid)) /\ QuantityOf(resources, Strip(rid)) = 0) =>
            LET b == borrow_resource(mem, sid, rid, d) IN
            /\ b.mem = mem
            /\ b.result =
                 IF Len(Strip(sid)) = 0 THEN "ValidationError"
                 ELSE IF \A i \in 1..Len(students) : students[i].student_id # Strip(sid)
                 THEN "NotFoundError"
                 ELSE "ConflictError"

\* C4 witness: the last unit of a resource is on loan to one registered
\* student while another registered student has no loan of it.
C4_Witness ==
    \E r \in 1..Len(resources), t \in 1..Len(transactions), s \in 1..Len(students) :
        /\ resources[r].quantity = 0
        /\ transactions[t].resource_id = resources[r].resource_id
        /\ transactions[t].status = "borrowed"
        /\ students[s].student_id # transactions[t].student_id
        /\ borrow_resource(mem, students[s].student_id, resources[r].resource_id,
                           None).result = "ConflictError"

HasBorrowed(txs, sid, rid) ==
    \E i \in 1..Len(txs) :
        /\ txs[i].student_id = sid
        /\ txs[i].resource_id = rid
        /\ txs[i].status = "borrowed"

\* C5: while a "borrowed" transaction exists for (student_id, resource_id), a
\* borrow by that pair fails with ConflictError, whatever the quantity left
\* and whatever borrow_date is passed.
C5_DoubleBorrowConflict ==
    \A sid \in StudentIdArgs, rid \in ResourceIdArgs, d \in BorrowDateArgs :
        HasBorrowed(transactions, Strip(sid), Strip(rid)) =>
            LET b == borrow_resource(mem, sid, rid, d) IN
            b.result = "ConflictError" /\ b.mem = mem

\* C5 witness: a pair holds a loan of a resource that still has units left,
\* so that only the pair check stands between it and a second loan.
C5_Witness ==
    \E t \in 1..Len(transactions), r \in 1..Len(resources) :
        /\ transactions[t].status = "borrowed"
        /\ resources[r].resource_id = transactions[t].resource_id
        /\ resources[r].quantity > 0
        /\ borrow_resource(mem, transactions[t].student_id, resources[r].resource_id,
                           <<2024, 2, 30>>).result = "ConflictError"

\* the largest numeric suffix among the transaction ids, 0 when there are none
MaxSuffix(txs) ==
    IF Len(txs) = 0 THEN 0
    ELSE SetMax({StrToInt(Tail(txs[i].transaction_id)) : i \in 1..Len(txs)})

\* "T" followed by n written with at least three digits
ThreeDigitId(n) ==
    <<"T">> \o (IF n < 10 THEN <<"0", "0">> ELSE IF n < 100 THEN <<"0">> ELSE <<>>)
            \o IntToStr(n)

\* C6: the transaction a borrow appends has the id "T" + the 3-digit value of
\* (largest existing suffix + 1), 1 when there is none, and the id is new; the
\* other operations, removing and adding resources among them, leave every
\* transaction id as it is.
C6_NextTransactionId ==
    [][ /\ IsBorrowStep =>
            /\ transactions'[Len(transactions')].transaction_id =
                   ThreeDigitId(MaxSuffix(transactions) + 1)
            /\ \A i \in 1..Len(transactions) :
                   transactions[i].transaction_id #
                       transactions'[Len(transactions')].transaction_id
        /\ \A i \in 1..Len(transactions) :
               /\ i <= Len(transactions')
               /\ transactions'[i].transaction_id = transactions[i].transaction_id
      ]_vars

\* C6 witness: two transactions, the second made after a resource was
\* removed (the first one is returned and its resource is gone).
C6_Witness ==
    /\ Len(transactions) = 2
    /\ transactions[1].transaction_id = <<"T", "0", "0", "1">>
    /\ transactions[2].transaction_id = <<"T", "0", "0", "2">>
    /\ ~HasResource(resources, transactions[1].resource_id)

\* C7: every resource's quantity is an integer >= 0.
C7_QuantityNonNegative ==
    \A i \in 1..Len(resources) : resources[i].quantity \in Nat

\* C7 witness: a resource at quantity 0 with a loan of it still out, so that
\* only the availability check keeps a further borrow from going below 0.
C7_Witness ==
    \E r \in 1..Len(resources), t \in 1..Len(transactions) :
        /\ resources[r].quantity = 0
        /\ transactions[t].status = "borrowed"
        /\ transactions[t].resource_id = resources[r].resource_id
        /\ Len(students) = 2

\* the collections an operation saves
SavesOf(op) ==
    IF op = "add_student" THEN {1}
    ELSE IF op \in {"add_resource", "update_resource_quantity", "remove_resource"}
    THEN {2}
    ELSE IF op \in {"borrow_resource", "return_resource",
                    "return_resource_by_student_resource"}
    THEN {2, 3}
    ELSE {}

\* C8 as stated: after every operation that completes without a persistence
\* failure, load_all on the stores gives the in-memory collections.
C8_Original ==
    (last.op # "init" /\ last.result = "ok") => load_all(disk) = mem

\* C8, amended: after an operation that completes without a persistence
\* failure, every store the operation saves holds the in-memory collection;
\* all three do, and load_all reproduces the in-memory collections, when no
\* save has failed before.
C8_SavedStoresAgree ==
    (last.op # "init" /\ last.result = "ok") =>
        /\ \A c \in SavesOf(last.op) : load_all(disk)[c] = mem[c]
        /\ failures = 0 => load_all(disk) = mem

\* C8 witness: a return has completed, no save has ever failed, and the
\* stores hold the returned transaction and the restored quantity.
C8_Witness ==
    /\ last = [op |-> "return_resource", result |-> "ok"]
    /\ failures = 0
    /\ load_all(disk) = mem
    /\ Len(transactions) = 2
    /\ transactions[2].status = "returned"

IsBorrowOrReturn(op) ==
    op \in {"borrow_resource", "return_resource", "return_resource_by_student_resource"}

\* C9 as stated: over a borrow or a return, the resources store and the
\* transactions store together hold either what they held before the call or
\* what the call leaves in memory.
C9_Original ==
    [][ IsBorrowOrReturn(last'.op) =>
            \/ <<d_resources', d_transactions'>> = <<d_resources, d_transactions>>
            \/ <<d_resources', d_transactions'>> =
                   <<json_dump(resources'), json_dump(transactions')>>
      ]_vars

\* C9, amended: each store is replaced as a whole and the resources store
\* first: after a borrow or a return the two stores hold both the old
\* content, or both the new content, or (the second save failed) the new
\* resources with the old transactions; never the new transactions with the
\* old resources.
C9_PerStoreAtomic ==
    [][ IsBorrowOrReturn(last'.op) =>
            /\ d_students' = d_students
            /\ last'.result = "ok" =>
                   <<d_resources', d_transactions'>> =
                       <<json_dump(resources'), json_dump(transactions')>>
            /\ last'.result = "FileManagerError" =>
                   /\ d_transactions' = d_transactions
                   /\ d_resources' \in {d_resources, json_dump(resources')}
            /\ last'.result \notin {"ok", "FileManagerError"} =>
                   <<d_resources', d_transactions'>> = <<d_resources, d_transactions>>
      ]_vars

\* C9 witness: a return whose second save failed: the resources store has the
\* quantity given back, the transactions store still says "borrowed".
C9_Witness ==
    /\ last = [op |-> "return_resource", result |-> "FileManagerError"]
    /\ Len(transactions) = 1 /\ Len(d_transactions) = 1
    /\ transactions[1].status = "returned"
    /\ d_transactions[1].status.v = "borrowed"
    /\ d_resources = json_dump(resources)

IsPrefix(a, b) == Len(a) <= Len(b) /\ SubSeq(b, 1, Len(a)) = a

\* the in-memory mutation of operation op is there after the step
MutationKept(op) ==
    IF op = "add_student"
    THEN Len(students') = Len(students) + 1 /\ IsPrefix(students, students')
    ELSE IF op = "add_resource"
    THEN Len(resources') = Len(resources) + 1 /\ IsPrefix(resources, resources')
    ELSE IF op = "update_resource_quantity"
    THEN \E r \in 1..Len(resources), q \in 0..MaxQty :
            resources' = [resources EXCEPT ![r].quantity = q]
    ELSE IF op = "remove_resource"
    THEN /\ Len(resources') <= Len(resources)
         /\ \A i \in 1..Len(resources') : \E j \in 1..Len(resources) :
                resources'[i] = resources[j]
    ELSE IF op = "borrow_resource"
    THEN /\ IsBorrowStep
         /\ resources' = WithQuantityDelta(
                resources, transactions'[Len(transactions')].resource_id, -1)
    ELSE \E t \in 1..Len(transactions) :
            /\ IsReturnStepOf(t)
            /\ resources' = WithQuantityDelta(resources, transactions[t].resource_id, 1)

\* C10 as stated: after a call in which a save failed, the in-memory
\* collections and the stores differ.
C10_Original ==
    last.result = "FileManagerError" => load_all(disk) # mem

\* C10, amended: a call in which a save fails raises, keeps the in-memory
\* mutation it made, and leaves the stores different from the in-memory
\* collections whenever they agreed before the call and the mutation changed
\* a collection (an update to the quantity the resource already has changes
\* nothing, and leaves them equal).
C10_NoRollback ==
    [][ last'.result = "FileManagerError" =>
            /\ failures' = failures + 1
            /\ MutationKept(last'.op)
            /\ (load_all(disk) = mem /\ mem' # mem) => load_all(disk') # mem'
      ]_vars

\* C10 witness: add_student raised on its save: the student is in memory and
\* not in the store.
C10_Witness ==
    /\ last = [op |-> "add_student", result |-> "FileManagerError"]
    /\ Len(students) = 1
    /\ d_students = <<>>

\* C11: a save of one collection is all-or-nothing: a _save_list that fails,
\* while writing the temporary file or while replacing the target, leaves
\* the store with exactly its previous content, one that succeeds leaves it
\* with exactly the new list, and no step leaves a store with anything else.
C11_SaveAllOrNothing ==
    [][ \A c \in 1..3 :
            /\ disk'[c] \in {disk[c], json_dump(mem'[c])}
            /\ (last'.result = "ok" /\ c \in SavesOf(last'.op)) =>
                   disk'[c] = json_dump(mem'[c])
            /\ _save_list(disk[c], mem'[c], NoFault) = json_dump(mem'[c])
            /\ \A fault \in SaveFaults(mem'[c]) :
                   _save_list(disk[c], mem'[c], fault) = disk[c]
      ]_vars

\* C11 witness: the save of a changed quantity failed: the store holds the
\* whole previous record, the memory the new one.
C11_Witness ==
    /\ last = [op |-> "update_resource_quantity", result |-> "FileManagerError"]
    /\ Len(resources) = 1 /\ Len(d_resources) = 1
    /\ d_resources # json_dump(resources)
    /\ d_resources[1].quantity.v # resources[1].quantity

SaveOp(c) == <<"save_students", "save_resources", "save_transactions">>[c]

LoadOp(c) == <<"load_students", "load_resources", "load_transactions">>[c]

C13_StatusAndReturnDate ==
    \A i \in 1..Len(transactions) :
        /\ transactions[i].status \in {"borrowed", "returned"}
        /\ transactions[i].return_date = None <=> transactions[i].status = "borrowed"

\* C13 witness: a returned transaction, with its return date, next to a
\* borrowed one, without.
C13_Witness ==
    \E i, j \in 1..Len(transactions) :
        /\ transactions[i].status = "returned"
        /\ transactions[i].return_date = today_iso
        /\ transactions[j].status = "borrowed"
        /\ transactions[j].return_date = None

\* the transaction ids that name, once stripped, the transaction tx
IdArgsOf(tx) == {tx.transaction_id, <<" ">> \o tx.transaction_id \o <<" ">>}

\* C14: a transaction is mutated at most once, by return. return_resource on
\* a "borrowed" transaction sets status "returned" and return_date to the
\* given date (today for None) and changes nothing else of it; a step changes
\* a transaction only in that way; a "returned" transaction is never changed
\* again, and every return_resource on it fails with ConflictError and
\* leaves its return_date and every quantity as they are.
C14_ReturnedOnce ==
    [][ \A t \in 1..Len(transactions) :
            LET tx == transactions[t] IN
            /\ t <= Len(transactions')
            /\ \/ transactions'[t] = tx
               \/ /\ tx.status = "borrowed"
                  /\ \E d \in {today_iso, GivenReturnDate} :
                        transactions'[t] =
                            [tx EXCEPT !.return_date = d, !.status = "returned"]
            /\ tx.status = "borrowed" =>
                   \A tid \in IdArgsOf(tx), d \in {None, GivenReturnDate} :
                       LET ret == return_resource(mem, tid, d) IN
                       /\ ret.result = "ok"
                       /\ ret.mem[3] =
                              [transactions EXCEPT ![t] =
                                  [tx EXCEPT !.return_date =
                                                 IF d = None THEN today_iso ELSE d,
                                             !.status = "returned"]]
            /\ tx.status = "returned" =>
                   \A tid \in IdArgsOf(tx), d \in StockCalls.rdates :
                       LET again == return_resource(mem, tid, d) IN
                       /\ again.result = "ConflictError"
                       /\ again.mem = mem
      ]_vars

\* C14 witness: a transaction returned on the date given by the caller,
\* its resource still there, and a second transaction borrowed after it.
C14_Witness ==
    /\ Len(transactions) = 2
    /\ transactions[1].status = "returned"
    /\ transactions[1].return_date = GivenReturnDate
    /\ HasResource(resources, transactions[1].resource_id)
    /\ transactions[2].status = "borrowed"

\* what C15 states of remove_resource(rid) in the current state
RemovalAsStated(rid) ==
    LET out == remove_resource(mem, rid) IN
    IF BorrowedCount(transactions, Strip(rid)) = 0
    THEN /\ out.result = "ok"
         /\ ~HasResource(out.mem[2], Strip(rid))
         /\ out.mem[3] = transactions
    ELSE /\ out.result = "ConflictError"
         /\ out.mem = mem

\* C15 as stated: remove_resource on an existing resource succeeds exactly
\* when no transaction against it has status "borrowed"; on success the
\* resource is no longer listed and the transactions are unchanged; with a
\* "borrowed" transaction against it the call fails with ConflictError and
\* the resource stays as it is.
C15_Original ==
    \A rid \in ResourceIdArgs :
        HasResource(resources, Strip(rid)) => RemovalAsStated(rid)

\* C15 for the ids the code handles as stated: when the resource id is given
\* without surrounding whitespace, remove_resource does what C15 states; the
\* other resources stay in their order, and students and transactions as
\* they are.
C15_RemoveUnpaddedId ==
    \A rid \in ResourceIdArgs :
        (HasResource(resources, rid) /\ Strip(rid) = rid) =>
            /\ RemovalAsStated(rid)
            /\ LET out == remove_resource(mem, rid) IN
               /\ out.mem[1] = students
               /\ out.mem[3] = transactions
               /\ out.result = "ok" =>
                      out.mem[2] = SelectSeq(resources, LAMBDA x : x.resource_id # rid)

\* C15 witness: two resources, one with a returned transaction only, which
\* remove_resource removes, the other on loan, which it refuses to remove.
C15_Witness ==
    \E i, j \in 1..Len(transactions) :
        /\ Len(resources) = 2
        /\ transactions[i].status = "returned"
        /\ transactions[j].status = "borrowed"
        /\ transactions[i].resource_id # transactions[j].resource_id
        /\ remove_resource(mem, transactions[i].resource_id).result = "ok"
        /\ remove_resource(mem, transactions[j].resource_id).result = "ConflictError"

\* C16: update_resource_quantity(id, q) on an existing resource with q >= 0
\* succeeds and sets the quantity to exactly q, whatever the number of
\* "borrowed" transactions against the resource; it changes no transaction,
\* no student and no other resource, and the return of a transaction against
\* the resource then leaves the quantity at q + 1.
C16_UpdateOverwrites ==
    \A rid \in ResourceIdArgs, q \in 0..MaxQty :
        HasResource(resources, Strip(rid)) =>
            LET r == FirstIndex(resources, "resource_id", Strip(rid))
                out == update_resource_quantity(mem, rid, [int |-> TRUE, v |-> q])
            IN  /\ out.result = "ok"
                /\ out.mem = <<students, [resources EXCEPT ![r].quantity = q],
                               transactions>>
                /\ \A t \in 1..Len(transactions) :
                       ( /\ transactions[t].status = "borrowed"
                         /\ transactions[t].resource_id = Strip(rid) ) =>
                           LET back == return_resource(
                                           out.mem, transactions[t].transaction_id, None)
                           IN  /\ back.result = "ok"
                               /\ back.mem[2] =
                                      [resources EXCEPT ![r].quantity = q + 1]

\* C16 witness: a resource with as many units as its largest stock and two
\* loans out, which only an overwrite with loans outstanding produces, next
\* to another resource; a further overwrite to 0 succeeds.
C16_Witness ==
    \E r \in 1..Len(resources) :
        /\ Len(resources) = 2
        /\ resources[r].quantity = MaxQty
        /\ BorrowedCount(transactions, resources[r].resource_id) = 2
        /\ update_resource_quantity(mem, resources[r].resource_id,
                                    [int |-> TRUE, v |-> 0]).mem[2][r].quantity = 0

UniqueBy(list, field) ==
    \A i, j \in 1..Len(list) : list[i][field] = list[j][field] => i = j

UniqueIds ==
    /\ UniqueBy(students, "student_id")
    /\ UniqueBy(resources, "resource_id")
    /\ UniqueBy(transactions, "transaction_id")

\* every text of the set is non-empty once stripped
AllFilled(texts) == \A x \in texts : Len(Strip(x)) > 0

\* C17 as stated: at most one student per student_id, one resource per
\* resource_id and one transaction per transaction_id; add_student and
\* add_resource with an id already present fail with ConflictError and leave
\* the collections unchanged.
C17_Original ==
    /\ UniqueIds
    /\ \A sid \in StudentIdArgs, name \in TextArgs, email \in TextArgs :
           (\E i \in 1..Len(students) : students[i].student_id = Strip(sid)) =>
               LET out == add_student(mem, sid, name, email) IN
               out.result = "ConflictError" /\ out.mem = mem
    /\ \A rid \in ResourceIdArgs, name \in TextArgs, rtype \in TextArgs,
          quantity \in QuantityArgs :
           HasResource(resources, Strip(rid)) =>
               LET out == add_resource(mem, rid, name, rtype, quantity) IN
               out.result = "ConflictError" /\ out.mem = mem

\* C17, amended: the ids are unique; add_student and add_resource with an id
\* already present always fail and leave the collections unchanged, with
\* ConflictError when the other arguments are valid and with ValidationError
\* when one of them is empty or the quantity is not an integer >= 0, the
\* arguments being validated before the id is looked up.
C17_UniqueIds ==
    /\ UniqueIds
    /\ \A sid \in StudentIdArgs, name \in TextArgs, email \in TextArgs :
           (\E i \in 1..Len(students) : students[i].student_id = Strip(sid)) =>
               LET out == add_student(mem, sid, name, email) IN
               /\ out.mem = mem
               /\ out.result = IF AllFilled({name, email})
                               THEN "ConflictError" ELSE "ValidationError"
    /\ \A rid \in ResourceIdArgs, name \in TextArgs, rtype \in TextArgs,
          quantity \in QuantityArgs :
           HasResource(resources, Strip(rid)) =>
               LET out == add_resource(mem, rid, name, rtype, quantity) IN
               /\ out.mem = mem
               /\ out.result =
                      IF AllFilled({name, rtype}) /\ quantity.int /\ quantity.v >= 0
                      THEN "ConflictError" ELSE "ValidationError"

\* C17 witness: two students, two resources and two transactions, and a
\* student id given with surrounding whitespace that is already present.
C17_Witness ==
    /\ Len(students) = 2 /\ Len(resources) = 2 /\ Len(transactions) = 2
    /\ add_student(mem, <<" ">> \o S1, <<"a">>, <<"a">>).result = "ConflictError"
    /\ add_resource(mem, <<" ">> \o R1, <<"a">>, <<"a">>,
                    [int |-> TRUE, v |-> 1]).result = "ConflictError"

Range(seq) == {seq[i] : i \in 1..Len(seq)}

\* the records the list operations, borrow_resource and return_resource hand
\* to a caller in the current state, for every argument
ListedRecords ==
    UNION ( {Range(list_resources(mem)), Range(list_available_resources(mem))}
            \cup {Range(list_transactions(mem, sid).ret) : sid \in StudentFilterArgs}
            \cup {Range(list_overdue(mem, d).ret) : d \in CurrentDateArgs}
            \cup {{returned_record(transactions[t])} : t \in 1..Len(transactions)} )

\* the records the find operations hand to a caller, for every argument
FoundRecords ==
    UNION ( {Range(find_student_record(mem, sid)) : sid \in StudentIdArgs}
            \cup {Range(find_resource_record(mem, rid)) : rid \in ResourceIdArgs}
            \cup {Range(find_transaction_record(mem, tid)) : tid \in TransactionIdArgs} )

\* a caller that changes a field of the record leaves the collections alone
ChangeStaysOutside(h) ==
    /\ h.of = 0
    /\ caller_sets(mem, h, ChangeOf(h.rec)[1], ChangeOf(h.rec)[2]) = mem

\* C18 as stated: every record handed to a caller by a list or lookup
\* operation, or returned by borrow_resource or return_resource, is a copy:
\* a caller that changes a field of it does not change the collections.
C18_Original == \A h \in ListedRecords \cup FoundRecords : ChangeStaysOutside(h)

\* C18, amended: the records of list_resources, list_available_resources,
\* list_transactions and list_overdue and the records returned by
\* borrow_resource and return_resource are copies; find_student,
\* find_resource and find_transaction hand out the record of the collection
\* itself, and a field a caller assigns in it is assigned in the collection.
C18_ListsCopyFindsShare ==
    /\ \A h \in ListedRecords :
           /\ ChangeStaysOutside(h)
           /\ h.rec \in Range(students) \cup Range(resources) \cup Range(transactions)
    /\ \A h \in FoundRecords :
           LET ch == ChangeOf(h.rec)
               m2 == caller_sets(mem, h, ch[1], ch[2])
           IN  /\ h.of \in 1..3
               /\ mem[h.of][h.at] = h.rec
               /\ m2[h.of][h.at] = [h.rec EXCEPT ![ch[1]] = ch[2]]
               /\ \A c \in 1..3 : \A i \in 1..Len(mem[c]) :
                      <<c, i>> # <<h.of, h.at>> => m2[c][i] = mem[c][i]

\* C18 witness: a caller has renamed the student it got from find_student
\* (the store still has the old name) and marked a found transaction, while
\* a resource is there to be listed.
C18_Witness ==
    /\ Len(students) >= 1 /\ Len(d_students) = Len(students)
    /\ students[1].name = <<"x">>
    /\ d_students[1].name.v = <<"a">>
    /\ Len(list_resources(mem)) = 1
    /\ \E t \in 1..Len(transactions) : transactions[t].status = "lost"

\* a date as one number, ordered as the calendar is
DateKey(d) == d[1] * 10000 + d[2] * 100 + d[3]

\* the valid dates list_overdue is called with, None standing for today
CurrentDates == {IF d = None THEN today_iso ELSE d : d \in CurrentDateArgs}

OverdueAsStated(tx, d) == tx.status = "borrowed" /\ DateKey(tx.due_date) < DateKey(d)

\* C19: is_overdue(tx, d) is true if and only if tx's status is "borrowed"
\* and its due_date is strictly before d; list_overdue(d) returns, in stored
\* order, exactly the transactions for which that holds, so never a
\* returned one.
C19_Overdue ==
    /\ \A t \in 1..Len(transactions), d \in CurrentDates :
           IsValidDate(d) =>
               /\ is_overdue(transactions[t], d) <=> OverdueAsStated(transactions[t], d)
               /\ ~is_overdue(transactions[t], transactions[t].due_date)
    /\ \A d \in CurrentDateArgs :
           LET cdate == IF d = None THEN today_iso ELSE d
               listed == list_overdue(mem, d)
               idx == {t \in 1..Len(transactions) : OverdueAsStated(transactions[t], cdate)}
           IN  IsValidDate(cdate) =>
                   /\ listed.result = "ok"
                   /\ Len(listed.ret) = Cardinality(idx)
                   /\ \A i \in 1..Len(listed.ret) :
                          /\ listed.ret[i].rec.status # "returned"
                          /\ \E t \in idx :
                                /\ listed.ret[i].rec = transactions[t]
                                /\ Cardinality({u \in idx : u < t}) = i - 1

\* C19 witness: two loans of a past date, overdue today and listed in their
\* stored order, neither of them overdue on its due date.
C19_Witness ==
    /\ Len(transactions) = 2
    /\ transactions[1].transaction_id # transactions[2].transaction_id
    /\ list_overdue(mem, None).ret =
           <<Copy(transactions[1]), Copy(transactions[2])>>
    /\ list_overdue(mem, transactions[1].due_date).ret = <<>>

\* the number of the day d in the proleptic Gregorian calendar (days since
\* 1970-01-01), by the closed formula over years of 365.2425 days
DayNumber(d) ==
    LET y == IF d[2] <= 2 THEN d[1] - 1 ELSE d[1]
        era == y \div 400
        yoe == y - era * 400
        mp == IF d[2] > 2 THEN d[2] - 3 ELSE d[2] + 9
        doy == (153 * mp + 2) \div 5 + d[3] - 1
        doe == yoe * 365 + yoe \div 4 - yoe \div 100 + doy
    IN  era * 146097 + doe - 719468

\* borrow dates at the end of February in a leap and in a common year, on a
\* leap day, and at the end of a year and of a century
CalendarProbes ==
    {<<2024, 2, 27>>, <<2023, 2, 27>>, <<2024, 2, 29>>, <<2024, 12, 31>>,
     <<2100, 2, 26>>, <<2000, 2, 27>>}

DueAsStated(tx) ==
    /\ IsValidDate(tx.due_date)
    /\ DayNumber(tx.due_date) = DayNumber(tx.borrow_date) + 3

\* C20: every transaction created by borrow_resource has a due_date that is
\* its borrow_date advanced by exactly due_days (3) calendar days, the same
\* for every borrow, and so it is not overdue on any date up to and
\* including that day.
C20_DueDate ==
    /\ due_days = 3
    /\ \A t \in 1..Len(transactions) :
           /\ DueAsStated(transactions[t])
           /\ \A d \in CurrentDates \cup {transactions[t].borrow_date,
                                            transactions[t].due_date} :
                  (IsValidDate(d) /\ DayNumber(d) <= DayNumber(transactions[t].borrow_date) + 3)
                      => ~is_overdue(transactions[t], d)
    /\ \A sid \in StudentIdArgs, bdate \in CalendarProbes \cup DateCalls.bdates :
           LET out == borrow_resource(mem, sid, R1, bdate) IN
           out.result = "ok" =>
               /\ out.ret.borrow_date = IF bdate = None THEN today_iso ELSE bdate
               /\ DueAsStated(out.ret)
               /\ out.mem[3][Len(out.mem[3])] = out.ret

\* C20 witness: a loan taken on 2023-12-30 and due on 2024-01-02, a loan
\* taken today, 2024-01-30, and due on 2024-02-02.
C20_Witness ==
    \E i, j \in 1..Len(transactions) :
        /\ transactions[i].borrow_date = PastBorrowDate
        /\ transactions[i].due_date = <<2024, 1, 2>>
        /\ transactions[j].borrow_date = today_iso
        /\ transactions[j].due_date = <<2024, 2, 2>>

\* ---- C21
\* the text after the first "@" of e
DomainAsStated(e) ==
    LET at == CHOOSE i \in 1..Len(e) : e[i] = "@" /\ \A j \in 1..(i - 1) : e[j] # "@"
    IN  SubSeq(e, at + 1, Len(e))

MatchesAny(domain, suffixes) ==
    \E i \in 1..Len(suffixes) :
        \E k \in 0..Len(domain) : SubSeq(domain, k + 1, Len(domain)) = suffixes[i]

RoleAsStated(cfg, email) ==
    LET e == Lower(Strip(email)) IN
    IF e = <<>> \/ ~(\E i \in 1..Len(e) : e[i] = "@") THEN "ValidationError"
    ELSE IF MatchesAny(DomainAsStated(e), cfg.student_domains) THEN "student"
    ELSE IF MatchesAny(DomainAsStated(e), cfg.staff_domains) THEN "staff"
    ELSE "ValidationError"

\* C21: determine_role trims and lower-cases the email, fails with
\* ValidationError when it is empty or has no "@", and classifies the text
\* after the first "@": student when it ends with a student suffix, otherwise
\* staff when it ends with a staff suffix, otherwise ValidationError; a domain
\* matching both lists is a student, the role is never anything but student or
\* staff, and main() routes every accepted email to one of the two menus.
C21_DetermineRole ==
    /\ last.op = "determine_role" =>
          /\ last.result \in {"ok", "ValidationError"}
          /\ last.result = "ok" => last.ret \in {"student", "staff"}
          /\ (IF last.result = "ok" THEN last.ret ELSE last.result)
                 = RoleAsStated(role_config, last.email)
    /\ last.op = "main" =>
          /\ last.ret \in {"invalid email", "staff_menu", "student_menu"}
          /\ last.ret = "student_menu" <=> RoleAsStated(role_config, last.email) = "student"
          /\ last.ret = "staff_menu" <=> RoleAsStated(role_config, last.email) = "staff"

\* an email in capitals between blanks whose domain matches both lists was
\* classified as student
C21_Witness ==
    /\ last.op = "determine_role"
    /\ last.email # Lower(Strip(last.email))
    /\ Contains(last.email, "@")
    /\ MatchesAny(DomainAsStated(Lower(Strip(last.email))), role_config.staff_domains)
    /\ MatchesAny(DomainAsStated(Lower(Strip(last.email))), role_config.student_domains)
    /\ last.ret = "student"

\* ---- C22
\* the positions of the borrowed transactions of the pair
BorrowedOfPair(txs, sid, rid) ==
    {i \in 1..Len(txs) :
        /\ txs[i].student_id = sid
        /\ txs[i].resource_id = rid
        /\ txs[i].status = "borrowed"}

\* return_resource_by_student_resource on collections m is as stated for a
\* pair of ids that are not blank
ReturnByPairAsStated(m, sid, rid, rd) ==
    LET out == return_resource_by_student_resource(m, sid, rid, rd)
        pair == BorrowedOfPair(m[3], Strip(sid), Strip(rid))
    IN  IF pair = {} THEN out = Raise("NotFoundError", m)
        ELSE IF Cardinality(pair) > 1 THEN out = Raise("ConflictError", m)
        ELSE \A i \in pair : out = return_resource(m, m[3][i].transaction_id, rd)

\* the collections with every transaction recorded twice: a pair with a
\* borrowed transaction then has more than one
Doubled(m) == <<m[1], m[2], m[3] \o m[3]>>

\* C22 (as amended): with a student id and a resource id that are not blank
\* return_resource_by_student_resource fails with NotFoundError when the pair
\* has no borrowed transaction, with ConflictError when it has more than one,
\* and otherwise has exactly the effect and result of return_resource on the
\* single borrowed transaction of the pair; with a blank id it fails with
\* ValidationError and changes nothing.
C22_ReturnByPair ==
    \A sid \in StudentIdArgs, rid \in ResourceIdArgs, rd \in ReturnDateArgs :
        IF Strip(sid) = <<>> \/ Strip(rid) = <<>>
        THEN return_resource_by_student_resource(mem, sid, rid, rd)
                 = Raise("ValidationError", mem)
        ELSE /\ ReturnByPairAsStated(mem, sid, rid, rd)
             /\ ReturnByPairAsStated(Doubled(mem), sid, rid, rd)

\* C22 as stated: NotFoundError whenever the pair has no borrowed transaction
C22_Original ==
    \A sid \in StudentIdArgs, rid \in ResourceIdArgs, rd \in ReturnDateArgs :
        BorrowedOfPair(transactions, Strip(sid), Strip(rid)) = {}
            => return_resource_by_student_resource(mem, sid, rid, rd).result
                   = "NotFoundError"

\* a return by pair has just succeeded on the single borrowed transaction
C22_Witness ==
    /\ last.op = "return_resource_by_student_resource"
    /\ last.result = "ok"
    /\ \E i \in 1..Len(transactions) : transactions[i].status = "returned"

\* ---- C23
\* ret holds, in the order of src, exactly the records of src at the positions kept
InStoredOrder(ret, src, kept) ==
    /\ Len(ret) = Cardinality(kept)
    /\ \A i \in kept : ret[Cardinality({j \in kept : j <= i})].rec = src[i]

Listed(ret, rid) == \E i \in 1..Len(ret) : ret[i].rec.resource_id = rid

\* a borrow that takes the last unit of a resource takes it off the list of
\* available resources, and the return of that loan puts it back
LastUnitAsStated(m, sid, rid) ==
    LET out == borrow_resource(m, sid, rid, None)
        r == find_resource(m[2], rid)
    IN  (out.result = "ok" /\ m[2][r].quantity = 1) =>
            /\ Listed(list_available_resources(m), Strip(rid))
            /\ ~Listed(list_available_resources(out.mem), Strip(rid))
            /\ Listed(list_available_resources(
                          return_resource(out.mem, out.ret.transaction_id, None).mem),
                      Strip(rid))

C24_AppendOnly ==
    [][ /\ IsPrefix(students, students')
        /\ Len(students') <= Len(students) + 1
        /\ Len(transactions) <= Len(transactions')
        /\ Len(transactions') <= Len(transactions) + 1
        /\ \A i \in 1..Len(transactions) :
              transactions'[i].transaction_id = transactions[i].transaction_id
      ]_vars

\* two students have been added and two loans made, one of them returned,
\* and the first student and the first loan are still the first
C24_Witness ==
    /\ Len(students) = 2
    /\ students[1].student_id = S2
    /\ Len(transactions) = 2
    /\ transactions[1].transaction_id = <<"T", "0", "0", "1">>
    /\ transactions[1].status = "returned"
    /\ transactions[2].status = "borrowed"

\* ---- C25
\* the numbers n of the student ids "S" + digits of n
StudentNumbers(studs) ==
    {StrToInt(Tail(studs[i].student_id)) :
        i \in {j \in 1..Len(studs) : /\ StartsWith(studs[j].student_id, "S")
                                      /\ IsDigitStr(Tail(studs[j].student_id))}}

\* "S" followed by n written with at least three digits
StudentIdOf(n) ==
    <<"S">> \o (IF n < 10 THEN <<"0", "0">> ELSE IF n < 100 THEN <<"0">> ELSE <<>>)
            \o IntToStr(n)

NewStudentNumber(studs) ==
    IF StudentNumbers(studs) = {} THEN 1
    ELSE 1 + CHOOSE n \in StudentNumbers(studs) : \A k \in StudentNumbers(studs) : k <= n

\* the students whose email is email, whatever the case of the letters
KnownAs(studs, email) ==
    {i \in 1..Len(studs) : Lower(studs[i].email) = Lower(email)}

\* C25: a login with the email of an existing student (compared without
\* regard to case) returns the id of that student and creates no record; a
\* login with an email no student has and a name that is not blank appends
\* exactly one student, with that name, the email in lower case and the id
\* "S" + the 3-digit value of (largest numeric suffix + 1), 1 when there is
\* none; that id is the id of no student before the login.
C25_Login ==
    [][ last'.op = "_get_or_create_student" =>
          LET email == Strip(last'.email)
              name == Strip(last'.name)
              new_id == StudentIdOf(NewStudentNumber(students))
          IN  IF email # <<>> /\ KnownAs(students, email) # {}
              THEN /\ students' = students
                   /\ \E i \in KnownAs(students, email) :
                         last'.ret = students[i].student_id
              ELSE IF email # <<>> /\ name # <<>>
              THEN /\ students' = Append(students, [student_id |-> new_id,
                                                     name |-> name,
                                                     email |-> Lower(email)])
                   /\ \A i \in 1..Len(students) : students[i].student_id # new_id
                   /\ last'.ret = new_id
                   /\ d_students' = json_dump(students')
              ELSE students' = students /\ last'.ret = None
      ]_vars

\* S002 was added first, so the first student to log in got S003 and there is
\* no S001; a login in capitals between blanks then found the student of
\* that email
C25_Witness ==
    /\ last.op = "_get_or_create_student"
    /\ last.email = <<" ", "A">>
    /\ \E i \in 1..Len(students) :
          students[i].student_id = last.ret /\ students[i].email = <<"a">>
    /\ \E i \in 1..Len(students) : students[i].student_id = <<"S", "0", "0", "3">>
    /\ \A i \in 1..Len(students) : students[i].student_id # S1

\* ---- C26
\* the store file of collection c holds a list whose entries are all objects
HoldsValidList(c) ==
    d_kind[c] = "list" /\ \A i \in 1..Len(disk[c]) : DOMAIN disk[c][i] # {"t", "v"}

FileUnchanged(c) == d_kind'[c] = d_kind[c] /\ disk'[c] = disk[c]

FirstFailureAsStated(m, sid, rid, d) ==
    LET s == Strip(sid)
        r == Strip(rid)
    IN  IF s = <<>> \/ r = <<>> THEN "ValidationError"
        ELSE IF \A i \in 1..Len(m[1]) : m[1][i].student_id # s THEN "NotFoundError"
        ELSE IF \A i \in 1..Len(m[2]) : m[2][i].resource_id # r THEN "NotFoundError"
        ELSE IF \E i \in 1..Len(m[2]) : m[2][i].resource_id = r /\ m[2][i].quantity <= 0
        THEN "ConflictError"
        ELSE IF HasBorrowed(m[3], s, r) THEN "ConflictError"
        ELSE IF ~IsValidDate(IF d = None THEN today_iso ELSE d) THEN "ValidationError"
        ELSE "ok"

\* a borrow that passes every check: one transaction with a new id appended,
\* the quantity of the resource one less, resources saved before transactions
BorrowEffectAsStated(m, sid, rid, out) ==
    /\ out.mem[1] = m[1]
    /\ Len(out.mem[2]) = Len(m[2])
    /\ \A i \in 1..Len(m[2]) :
          out.mem[2][i] =
              IF m[2][i].resource_id = Strip(rid)
              THEN [m[2][i] EXCEPT !.quantity = m[2][i].quantity - 1]
              ELSE m[2][i]
    /\ Len(out.mem[3]) = Len(m[3]) + 1
    /\ SubSeq(out.mem[3], 1, Len(m[3])) = m[3]
    /\ out.mem[3][Len(m[3]) + 1].transaction_id = ThreeDigitId(MaxSuffix(m[3]) + 1)
    /\ out.mem[3][Len(m[3]) + 1].student_id = Strip(sid)
    /\ out.mem[3][Len(m[3]) + 1].resource_id = Strip(rid)
    /\ out.mem[3][Len(m[3]) + 1].status = "borrowed"
    /\ out.saves = <<"resources", "transactions">>

\* C27: borrow_resource reports the first precondition that fails in the
\* order: blank student_id or resource_id (ValidationError), student absent
\* (NotFoundError), resource absent (NotFoundError), quantity <= 0
\* (ConflictError), pair with a borrowed transaction (ConflictError),
\* malformed borrow_date (ValidationError), and then changes and saves
\* nothing; when all pass it appends the transaction under the next id,
\* decrements the quantity and saves resources, then transactions.
C27_BorrowChecks ==
    \A sid \in StudentIdArgs, rid \in ResourceIdArgs, d \in BorrowDateArgs :
        LET out == borrow_resource(mem, sid, rid, d) IN
        /\ out.result = FirstFailureAsStated(mem, sid, rid, d)
        /\ out.result # "ok" => out = Raise(out.result, mem)
        /\ out.result = "ok" => BorrowEffectAsStated(mem, sid, rid, out)

\* S002 holds the last unit of R1 and S001 is not a student: a borrow of R1
\* by S001 fails on the student, one by S002 on the availability whatever
\* the date
C27_Witness ==
    /\ HasBorrowed(transactions, S2, R1)
    /\ \E i \in 1..Len(resources) :
          resources[i].resource_id = R1 /\ resources[i].quantity = 0
    /\ \A i \in 1..Len(students) : students[i].student_id # S1
    /\ borrow_resource(mem, <<" ">> \o S1, R1, None).result = "NotFoundError"
    /\ borrow_resource(mem, S2, R1, <<2024, 2, 30>>).result = "ConflictError"

\* ---- C28
ManagerErrors == {"ValidationError", "NotFoundError", "ConflictError"}

\* C28: an operation of the manager that fails with ValidationError,
\* NotFoundError or ConflictError leaves the students, resources and
\* transactions in memory as they were and saves nothing: the three stores
\* hold what they held.
C28_FailureChangesNothing ==
    [][ last'.result \in ManagerErrors => (mem' = mem /\ disk' = disk) ]_vars

\* a return with a malformed date has just failed on a borrowed transaction,
\* which is still borrowed, and the stores hold the collections
C28_Witness ==
    /\ last.op = "return_resource"
    /\ last.result = "ValidationError"
    /\ \E i \in 1..Len(transactions) : transactions[i].status = "borrowed"
    /\ \E i \in 1..Len(resources) : resources[i].quantity = 0
    /\ failures = 0
    /\ load_all(disk) = mem

\* ---- C29
\* the dates a return is given that are well formed: none (today), or a date
WellFormedReturnDates == {None, GivenReturnDate}

\* C29: every transaction with status "borrowed" references a student and a
\* resource that exist; return_resource on it with a well-formed date
\* succeeds; and return_resource fails with NotFoundError only when there is
\* no transaction of the given id, never for a resource that is gone.
C29_BorrowedReferencesExist ==
    /\ \A t \in 1..Len(transactions) :
          transactions[t].status = "borrowed" =>
              /\ \E i \in 1..Len(students) :
                    students[i].student_id = transactions[t].student_id
              /\ \E i \in 1..Len(resources) :
                    resources[i].resource_id = transactions[t].resource_id
              /\ \A d \in WellFormedReturnDates :
                    return_resource(mem, transactions[t].transaction_id, d).result = "ok"
    /\ \A tid \in TransactionIdArgs, d \in ReturnDateArgs \cup WellFormedReturnDates :
          return_resource(mem, tid, d).result = "NotFoundError" =>
              \A t \in 1..Len(transactions) :
                  transactions[t].transaction_id # Strip(tid)

\* a resource on loan after an earlier loan of it was returned, which
\* remove_resource refuses to remove under its id and leaves in place under
\* its id with a blank before it
C29_Witness ==
    \E i, j \in 1..Len(transactions) :
        /\ transactions[i].status = "borrowed"
        /\ transactions[j].status = "returned"
        /\ remove_resource(mem, transactions[i].resource_id).result = "ConflictError"
        /\ remove_resource(mem, <<" ">> \o transactions[i].resource_id).result = "ok"
        /\ remove_resource(mem, <<" ">> \o transactions[i].resource_id).mem = mem

\* ---- C30
\* C30 (as amended): return_resource_by_student_resource never fails with
\* ConflictError, no pair having more than one borrowed transaction; with ids
\* that are not blank and a well-formed date it succeeds when the pair has a
\* borrowed transaction and fails with NotFoundError when it has none; with a
\* blank id it fails with ValidationError.
C30_NeverAmbiguous ==
    \A sid \in StudentIdArgs, rid \in ResourceIdArgs :
        /\ Cardinality(BorrowedOfPair(transactions, Strip(sid), Strip(rid))) <= 1
        /\ \A d \in ReturnDateArgs \cup WellFormedReturnDates :
              LET out == return_resource_by_student_resource(mem, sid, rid, d) IN
              /\ out.result # "ConflictError"
              /\ (Strip(sid) = <<>> \/ Strip(rid) = <<>>) => out.result = "ValidationError"
              /\ (Strip(sid) # <<>> /\ Strip(rid) # <<>> /\ d \in WellFormedReturnDates) =>
                    out.result =
                        IF BorrowedOfPair(transactions, Strip(sid), Strip(rid)) # {}
                        THEN "ok" ELSE "NotFoundError"

\* C30 as stated: with a well-formed date the call succeeds when the pair has
\* a borrowed transaction and fails with NotFoundError otherwise
C30_Original ==
    \A sid \in StudentIdArgs, rid \in ResourceIdArgs, d \in WellFormedReturnDates :
        return_resource_by_student_resource(mem, sid, rid, d).result =
            IF BorrowedOfPair(transactions, Strip(sid), Strip(rid)) # {}
            THEN "ok" ELSE "NotFoundError"

\* one student holds a loan of the resource and the other has returned one:
\* a return by pair succeeds for the first and finds nothing for the second
C30_Witness ==
    \E i, j \in 1..Len(transactions) :
        /\ transactions[i].status = "borrowed"
        /\ transactions[j].status = "returned"
        /\ transactions[i].resource_id = transactions[j].resource_id
        /\ transactions[i].student_id # transactions[j].student_id
        /\ return_resource_by_student_resource(
               mem, transactions[i].student_id, transactions[i].resource_id,
               GivenReturnDate).result = "ok"
        /\ return_resource_by_student_resource(
               mem, transactions[j].student_id, transactions[j].resource_id,
               GivenReturnDate).result = "NotFoundError"

\* ------------------------------------------------------------------- C31
\* the transaction id is "T" followed by digits that read as the number k
HasSuffix(tx, k) ==
    /\ StartsWith(tx.transaction_id, "T")
    /\ IsDigitStr(Tail(tx.transaction_id))
    /\ StrToInt(Tail(tx.transaction_id)) = k

\* C31: in every state reached from empty collections the numeric suffixes of
\* the transaction ids, in stored order, are 1, 2, ..., n: the k-th
\* transaction has suffix k, and the id the next borrow would take has suffix
\* n + 1, whatever returns, quantity updates and removals happened before.
C31_SuffixesCountUp ==
    /\ \A k \in 1..Len(transactions) : HasSuffix(transactions[k], k)
    /\ next_transaction_id(transactions) = ThreeDigitId(Len(transactions) + 1)

\* C31 witness: two transactions, the first one returned before the second
\* was made, on a resource whose quantity was overwritten in between.
C31_Witness ==
    /\ Len(transactions) = 2
    /\ transactions[1].status = "returned"
    /\ transactions[2].status = "borrowed"
    /\ transactions[1].student_id = transactions[2].student_id
    /\ transactions[2].resource_id \in overridden
    /\ HasSuffix(transactions[2], 2)

\* ------------------------------------------------------------------- C32
ReadOnlyOps ==
    {"find_student", "find_resource", "find_transaction", "list_resources",
     "list_available_resources", "list_transactions", "is_overdue", "list_overdue",
     "determine_role", "next_transaction_id"}

\* C32: a call of a read-only operation, whether it returns or raises, leaves
\* the three in-memory collections and the three stores as they were, and it
\* never ends with a save error.
C32_ReadOnly ==
    [][ last'.op \in ReadOnlyOps =>
            /\ students' = students
            /\ resources' = resources
            /\ transactions' = transactions
            /\ d_students' = d_students
            /\ d_resources' = d_resources
            /\ d_transactions' = d_transactions
            /\ last'.result \in {"ok", "ValidationError"}
      ]_vars

\* C32 witness: a read-only call has just raised ValidationError while the
\* transactions in memory, one of them borrowed, differ from what the store
\* holds after a failed save.
C32_Witness ==
    /\ last.op \in ReadOnlyOps
    /\ last.result = "ValidationError"
    /\ \E i \in 1..Len(transactions) : transactions[i].status = "borrowed"
    /\ failures > 0
    /\ Len(d_transactions) # Len(transactions)

\* ------------------------------------------------------------------- C33
\* the transactions a step changed
ChangedTransactions ==
    {i \in 1..Len(transactions) : transactions'[i] # transactions[i]}

\* C33 as stated: a return made in the student menu, by resource id or by
\* transaction id, changes only transactions of the logged-in student.
C33_Original ==
    [][ last'.op = "_return_resource" =>
            \A i \in ChangedTransactions :
                transactions[i].student_id = last'.student_id
      ]_vars

\* C33, for what the code does: a return by resource id changes one borrowed
\* transaction of the logged-in student and no other; a return by transaction
\* id changes the transaction with the typed id and no other, whoever
\* borrowed it; a flow that ends without a successful return changes nothing.
C33_MenuReturn ==
    [][ last'.op = "_return_resource" =>
            /\ Len(transactions') = Len(transactions)
            /\ last'.result # "ok" => ChangedTransactions = {}
            /\ last'.result = "ok" =>
                   \E i \in 1..Len(transactions) :
                       /\ ChangedTransactions = {i}
                       /\ transactions[i].status = "borrowed"
                       /\ transactions'[i].status = "returned"
                       /\ last'.method = <<"1">> =>
                              /\ transactions[i].student_id = last'.student_id
                              /\ transactions[i].resource_id = last'.id
                       /\ last'.method = <<"2">> =>
                              transactions[i].transaction_id = last'.id
      ]_vars

\* C33 witness: a student has just returned a loan by resource id in the
\* menu while the other student's loan of the same resource stays borrowed.
C33_Witness ==
    /\ last.op = "_return_resource"
    /\ last.result = "ok"
    /\ last.method = <<"1">>
    /\ \E i, j \in 1..Len(transactions) :
           /\ transactions[i].student_id = last.student_id
           /\ transactions[i].status = "returned"
           /\ transactions[j].student_id # last.student_id
           /\ transactions[j].status = "borrowed"

\* ------------------------------------------------------------------- C34
FixedFields == {"transaction_id", "student_id", "resource_id", "borrow_date", "due_date"}

\* C34: every operation keeps each transaction in its place with its
\* transaction_id, student_id, resource_id, borrow_date and due_date; a
\* transaction changes only once, from "borrowed" without a return date to
\* "returned" with one, in a step that changes no other transaction and adds
\* one unit to its resource; a returned transaction never changes again.
C34_FieldsFixed ==
    [][ \A i \in 1..Len(transactions) :
            /\ i <= Len(transactions')
            /\ \A f \in FixedFields : transactions'[i][f] = transactions[i][f]
            /\ transactions'[i] # transactions[i] =>
                   /\ transactions[i].status = "borrowed"
                   /\ transactions[i].return_date = None
                   /\ transactions'[i].status = "returned"
                   /\ transactions'[i].return_date # None
                   /\ \A j \in 1..Len(transactions) :
                          j # i => transactions'[j] = transactions[j]
                   /\ resources' = WithQuantityDelta(resources,
                                                     transactions[i].resource_id, 1)
      ]_vars

\* C34 witness: two transactions, both returned, one on a date of the
\* caller's choice, still stored with their ids, dates and resource id after
\* their resource was removed.
C34_Witness ==
    /\ Len(transactions) = 2
    /\ resources = <<>>
    /\ \A i \in 1..2 :
           /\ transactions[i].status = "returned"
           /\ transactions[i].resource_id = R1
           /\ transactions[i].due_date = iso_plus_days(transactions[i].borrow_date, due_days)
    /\ transactions[1].return_date = GivenReturnDate
    /\ transactions[1].student_id # transactions[2].student_id

====
